---- MODULE Spec2Model ----
(***************************************************************************)
(* Webhook change-detection engine of the Sunsama HTTP API server:         *)
(* watcher.ts (pollForUser, detectChanges, hashTaskState, ...), the        *)
(* self-origin markers of redis/client.ts and the dispatcher.              *)
(*                                                                         *)
(* Conventions.  JavaScript null/undefined is the string NULL.  A nullable *)
(* number is a sequence: <<>> for null, <<n>> for the number n.  The       *)
(* optional objects task.snooze and task.timeHorizon are flattened to the  *)
(* members the code reads (snooze?.until, timeHorizon?.type,               *)
(* timeHorizon?.relativeTo).  Wall-clock timestamps (updatedAt, lastPoll,  *)
(* payload.timestamp) are left out: no decision of the code reads them.    *)
(* A calendar date is an integer day number; day 0 is a Sunday.  An        *)
(* instant (a JavaScript Date) is a number of hours since day 0, 0:00 UTC; *)
(* local time is UTC plus a whole number of hours, without daylight saving.*)
(***************************************************************************)
EXTENDS Integers, Sequences, FiniteSets, TLC

VARIABLES
    tasks,          \* task source: task id -> current raw Task
    place,          \* task source: task id -> where a fetch finds the task
    webhook_state,  \* redis key webhook_state:<apiKey>: <<>> or <<UserTasksState>>
    api_change,     \* redis keys api_change:<apiKey>:<taskId>: NULL or event type
    cycles,         \* slot -> the pollForUser invocation in flight there, if any
    started,        \* number of pollForUser invocations started so far
    webhooks,       \* every call of dispatchWebhook so far: [cycle, payload]
    realChanges,    \* task id -> number of fingerprint transitions made at the source,
                    \* outside the server
    edits,          \* number of external edits of the task source so far
    delivery,       \* the dispatchWebhook call under study: its position, inputs, result
    posts,          \* the HTTP requests that call has made
    receipts,       \* what a receiver made of the requests: its signature checks
    isRunning,      \* watcher.ts: isRunning
    timers,         \* tier -> whether its interval timer is set (watcherInterval<Tier>)
    initialPoll,    \* number of pending 5 s timeouts of the initial poll
    passes,         \* the poll functions (pollToday, ...) in flight, a set of [scope, i, awaiting]
    request,        \* the HTTP request the server is handling, and what became of it
    served,         \* number of HTTP requests taken so far
    clock,          \* the process's clock: [now, tz], hours since day 0 0:00 UTC and the
                    \* hours local time is ahead of UTC
    webhookConfig,  \* <<>>, or <<the week range of the WebhookConfig loaded at startup>>
    dayset,         \* scope -> <<>> or <<the days getDaysForScope returned for it>>
    boot,           \* main(): its position, the environment it was started with, what it did
    compared,       \* the call of detectChanges under study: its arguments and its result
    hashed,         \* the two task observations snapshotted for comparison, and the result
    fetchCall,      \* the call of fetchTasksWithRateLimit under study: its position, its
                    \* arguments, the day fetches in flight and what it has done so far
    sessions,       \* SessionManager: the sessions map (API key -> client), its calls so
                    \* far, the number of clients constructed and of sessions dropped
    checks,         \* the calls of checkApiChange under study, each with its position and
                    \* the value it read, and the number of markers recorded
    eventsEnv       \* WEBHOOK_EVENTS as the process read it, and the filter made of it

watcherVars ==
    <<tasks, place, webhook_state, api_change, cycles, started, webhooks, realChanges, edits>>
dispatcherVars == <<delivery, posts, receipts>>
\* the variables no step of the watcher writes
schedulerVars == <<isRunning, timers, initialPoll, passes>>
serverVars == <<request, served>>
calendarVars == <<clock, webhookConfig, dayset>>
\* the variables only the later parts of the model write
bootVars == <<boot>>
\* the variables of the functions studied on their own
moreVars == <<hashed, fetchCall, sessions, checks, eventsEnv>>
laterVars == <<compared, moreVars>>
otherVars == <<calendarVars, bootVars, laterVars>>
aux == <<dispatcherVars, schedulerVars, serverVars, otherVars>>
vars == <<watcherVars, aux>>

NULL == "null"

(* ------------------------------ bounds --------------------------------- *)
MaxEdits == 2           \* edits of the task source, one cycle at a time
MaxCycles == 2          \* pollForUser invocations, one cycle at a time
MaxOverlapEdits == 1    \* edits of the task source, overlapping cycles
MaxOverlapCycles == 3   \* pollForUser invocations, overlapping cycles
Today == 10         \* the current date (a Wednesday)

ApiKeys == {"k1"}
clients == <<"k1", "k2">>          \* the WatcherClient[] given to startWatcher, by API key
StoreKeys == ApiKeys \cup { clients[i] : i \in DOMAIN clients }
TaskIds == {"T1", "T2"}
TaskOrder == <<"T1", "T2">>     \* the order in which the source lists tasks
Scopes == {"today", "week", "past", "future"}
Slots == {1, 2}                 \* pollForUser invocations that can be in flight together

(* --------------------------- configuration ----------------------------- *)
config ==
    [ pollWeeksPast |-> 1, pollExtraDaysPast |-> 0,
      pollWeeksAhead |-> 1, pollExtraDaysAhead |-> 0,
      events |-> {} ]

(* ------------------------------- tasks --------------------------------- *)
Backlog == <<"backlog">>
Nowhere == <<"none">>
OnDay(d) == <<"day", d>>

InitialTask(id) ==
    [ _id |-> id, text |-> "Buy milk", completed |-> FALSE, completeDate |-> NULL,
      snoozeUntil |-> NULL, dueDate |-> NULL, timeEstimate |-> <<>>, notes |-> "",
      streamIds |-> <<>>, timeHorizonType |-> NULL, timeHorizonRelativeTo |-> NULL ]

\* a || b for strings (null, undefined and '' are falsy)
OrStr(a, b) == IF a \in {NULL, ""} THEN b ELSE a
\* a || null for numbers (null and 0 are falsy)
OrNullNum(a) == IF a = <<>> \/ a = <<0>> THEN <<>> ELSE a

\* mutant: a member outside the ten fields enters the fingerprint
hashTaskStateWithOther(task) ==
    << task.text, task.completed, task.completeDate, OrStr(task.snoozeUntil, NULL),
       task.dueDate, task.timeEstimate, task.notes, task.streamIds,
       OrStr(task.timeHorizonType, NULL), OrStr(task.timeHorizonRelativeTo, NULL),
       IF "other" \in DOMAIN task THEN task.other ELSE NULL >>

\* md5 over JSON.stringify of the ten fields, as the tuple that is serialized
hashTaskState(task) ==
    << task.text, task.completed, task.completeDate, OrStr(task.snoozeUntil, NULL),
       task.dueDate, task.timeEstimate, task.notes, task.streamIds,
       OrStr(task.timeHorizonType, NULL), OrStr(task.timeHorizonRelativeTo, NULL) >>

taskToStoredState(task) ==
    [ id |-> task._id,
      text |-> OrStr(task.text, ""),
      completed |-> task.completed,
      completedAt |-> OrStr(task.completeDate, NULL),
      snoozeUntil |-> OrStr(task.snoozeUntil, NULL),
      dueDate |-> OrStr(task.dueDate, NULL),
      timeEstimate |-> OrNullNum(task.timeEstimate),
      timeHorizonType |-> OrStr(task.timeHorizonType, NULL),
      hash |-> hashTaskState(task) ]

(* --------------------------- detectChanges ----------------------------- *)
NullState == [id |-> NULL]
NoChange == [event |-> NULL]

\* mutant: every field of the general update is reported, changed or not
UpdatedChangesAllFields(oldState, newState) ==
    [ f \in {"text", "dueDate", "timeEstimate"} |-> [old |-> oldState[f], new |-> newState[f]] ]

UpdatedChanges(oldState, newState) ==
    LET fields == { f \in {"text", "dueDate", "timeEstimate"} : oldState[f] # newState[f] }
    IN  [ f \in fields |-> [old |-> oldState[f], new |-> newState[f]] ]

\* the general update: task.updated with the change map, left out when empty
GeneralUpdate(oldState, newState) ==
    IF DOMAIN UpdatedChanges(oldState, newState) # {}
    THEN [ event |-> "task.updated", changes |-> UpdatedChanges(oldState, newState) ]
    ELSE [ event |-> "task.updated" ]

ScheduleChange(oldState, newState) ==
    [ event |-> "task.scheduled",
      changes |-> [ f \in {"snoozeUntil"} |->
                      [old |-> oldState.snoozeUntil, new |-> newState.snoozeUntil] ] ]

BucketChange(oldState, newState) ==
    [ event |-> "task.scheduled",
      changes |-> [ f \in {"timeHorizon"} |->
                      [old |-> oldState.timeHorizonType, new |-> newState.timeHorizonType] ] ]

\* mutant: the hashes are not compared
detectChangesNoHashCheck(oldState, newState) ==
    IF oldState # NullState /\ newState = NullState THEN [event |-> "task.deleted"]
    ELSE IF oldState = NullState /\ newState # NullState THEN [event |-> "task.created"]
    ELSE IF oldState # NullState /\ newState # NullState THEN
        IF ~oldState.completed /\ newState.completed THEN [event |-> "task.completed"]
        ELSE IF oldState.completed /\ ~newState.completed THEN [event |-> "task.uncompleted"]
        ELSE IF oldState.snoozeUntil # newState.snoozeUntil
             THEN ScheduleChange(oldState, newState)
        ELSE IF oldState.timeHorizonType # newState.timeHorizonType
             THEN BucketChange(oldState, newState)
        ELSE GeneralUpdate(oldState, newState)
    ELSE NoChange

\* mutant: the schedule date is looked at before the completion flag
detectChangesScheduleFirst(oldState, newState) ==
    IF oldState # NullState /\ newState = NullState THEN [event |-> "task.deleted"]
    ELSE IF oldState = NullState /\ newState # NullState THEN [event |-> "task.created"]
    ELSE IF oldState # NullState /\ newState # NullState /\ oldState.hash # newState.hash THEN
        IF oldState.snoozeUntil # newState.snoozeUntil
        THEN ScheduleChange(oldState, newState)
        ELSE IF ~oldState.completed /\ newState.completed THEN [event |-> "task.completed"]
        ELSE IF oldState.completed /\ ~newState.completed THEN [event |-> "task.uncompleted"]
        ELSE IF oldState.timeHorizonType # newState.timeHorizonType
             THEN BucketChange(oldState, newState)
        ELSE GeneralUpdate(oldState, newState)
    ELSE NoChange

\* mutant: the backlog bucket is looked at before the schedule date
detectChangesBucketFirst(oldState, newState) ==
    IF oldState # NullState /\ newState = NullState THEN [event |-> "task.deleted"]
    ELSE IF oldState = NullState /\ newState # NullState THEN [event |-> "task.created"]
    ELSE IF oldState # NullState /\ newState # NullState /\ oldState.hash # newState.hash THEN
        IF ~oldState.completed /\ newState.completed THEN [event |-> "task.completed"]
        ELSE IF oldState.completed /\ ~newState.completed THEN [event |-> "task.uncompleted"]
        ELSE IF oldState.timeHorizonType # newState.timeHorizonType
             THEN BucketChange(oldState, newState)
        ELSE IF oldState.snoozeUntil # newState.snoozeUntil
             THEN ScheduleChange(oldState, newState)
        ELSE GeneralUpdate(oldState, newState)
    ELSE NoChange

\* mutant: a task that is gone is no change
detectChangesNoDeleted(oldState, newState) ==
    IF oldState = NullState /\ newState # NullState THEN [event |-> "task.created"]
    ELSE IF oldState # NullState /\ newState # NullState /\ oldState.hash # newState.hash THEN
        IF ~oldState.completed /\ newState.completed THEN [event |-> "task.completed"]
        ELSE IF oldState.completed /\ ~newState.completed THEN [event |-> "task.uncompleted"]
        ELSE IF oldState.snoozeUntil # newState.snoozeUntil
             THEN ScheduleChange(oldState, newState)
        ELSE IF oldState.timeHorizonType # newState.timeHorizonType
             THEN BucketChange(oldState, newState)
        ELSE GeneralUpdate(oldState, newState)
    ELSE NoChange

detectChanges(oldState, newState) ==
    IF oldState # NullState /\ newState = NullState THEN [event |-> "task.deleted"]
    ELSE IF oldState = NullState /\ newState # NullState THEN [event |-> "task.created"]
    ELSE IF oldState # NullState /\ newState # NullState /\ oldState.hash # newState.hash THEN
        IF ~oldState.completed /\ newState.completed THEN [event |-> "task.completed"]
        ELSE IF oldState.completed /\ ~newState.completed THEN [event |-> "task.uncompleted"]
        ELSE IF oldState.snoozeUntil # newState.snoozeUntil
             THEN ScheduleChange(oldState, newState)
        ELSE IF oldState.timeHorizonType # newState.timeHorizonType
             THEN BucketChange(oldState, newState)
        ELSE GeneralUpdate(oldState, newState)
    ELSE NoChange

(* ------------------------------ scopes --------------------------------- *)
HoursPerDay == 24
UTC == 0

\* toISOString().split('T')[0]: the UTC calendar date of an instant
ISODate(instant) == instant \div HoursPerDay
\* getDate(), getDay(): the local calendar date of an instant, and its day of the week
LocalDate(instant, tz) == (instant + tz) \div HoursPerDay
getDay(instant, tz) == LocalDate(instant, tz) % 7
\* setDate(getDate() + n): the local date moves by n days, the local time of day stays
AddDays(instant, n) == instant + n * HoursPerDay

getDateOffset(daysOffset, baseDate) == ISODate(AddDays(baseDate, daysOffset))

\* the instant of local midnight at the start of the local week's Monday
getThisWeekMonday(now, tz) ==
    LET dayOfWeek == getDay(now, tz)
        daysFromMonday == IF dayOfWeek = 0 THEN 6 ELSE dayOfWeek - 1
        monday == AddDays(now, -daysFromMonday)
    IN  LocalDate(monday, tz) * HoursPerDay - tz

getWeekDays(monday) == [ i \in 1..7 |-> getDateOffset(i - 1, monday) ]

RECURSIVE WeeksFrom(_, _, _, _)
\* the days of weeks w..n, week w starting 7 * w days after (sign 1) or before
\* (sign -1) thisMonday
WeeksFrom(thisMonday, sign, w, n) ==
    IF w > n THEN <<>>
    ELSE getWeekDays(AddDays(thisMonday, sign * w * 7))
         \o WeeksFrom(thisMonday, sign, w + 1, n)

getDaysForScope(scope, cfg, now, tz) ==
    LET thisMonday == getThisWeekMonday(now, tz)
        today == getDateOffset(0, now)
        weeksPast == IF cfg.pollWeeksPast = 0 THEN 1 ELSE cfg.pollWeeksPast
        weeksAhead == IF cfg.pollWeeksAhead = 0 THEN 1 ELSE cfg.pollWeeksAhead
        earliestMonday == AddDays(thisMonday, -(weeksPast * 7))
        latestSunday == AddDays(AddDays(thisMonday, weeksAhead * 7), 6)
    IN  CASE scope = "today" -> <<today>>
          [] scope = "week" -> SelectSeq(getWeekDays(thisMonday), LAMBDA day : day # today)
          [] scope = "past" ->
                WeeksFrom(thisMonday, -1, 1, weeksPast)
                \o [ d \in 1..cfg.pollExtraDaysPast |-> getDateOffset(-d, earliestMonday) ]
          [] scope = "future" ->
                WeeksFrom(thisMonday, 1, 1, weeksAhead)
                \o [ d \in 1..cfg.pollExtraDaysAhead |-> getDateOffset(d, latestSunday) ]

(* ---------------------------- task source ------------------------------ *)
\* the tasks the source lists at a place, as raw Tasks
TasksAt(p) ==
    LET ids == SelectSeq(TaskOrder, LAMBDA t : place[t] = p)
    IN  [ i \in 1..Len(ids) |-> tasks[ids[i]] ]

getTasksBacklog == TasksAt(Backlog)
getTasksByDay(day) == TasksAt(OnDay(day))

RECURSIVE fetchTasksWithRateLimit(_)
fetchTasksWithRateLimit(days) ==
    IF days = <<>> THEN <<>>
    ELSE getTasksByDay(Head(days)) \o fetchTasksWithRateLimit(Tail(days))

(* ------------------------------- maps ---------------------------------- *)
EmptyMap == <<>>
Put(m, k, v) == [ x \in DOMAIN m \cup {k} |-> IF x = k THEN v ELSE m[x] ]

RECURSIVE MapOfTasks(_, _)
\* new Map() filled by set(task._id, task): keys in first-insertion order, last value wins
MapOfTasks(allTasks, acc) ==
    IF allTasks = <<>> THEN acc
    ELSE LET task == Head(allTasks)
         IN  MapOfTasks(Tail(allTasks),
                 [ keys |-> IF task._id \in DOMAIN acc.map THEN acc.keys
                            ELSE Append(acc.keys, task._id),
                   map |-> Put(acc.map, task._id, task) ])

(* --------------------------- state store ------------------------------- *)
\* getStoredState: the parsed record under webhook_state:<apiKey>, or null
\* a stored value that is not JSON
Unparseable == [ unparseable |-> TRUE ]

\* redis.get, then JSON.parse in a try whose catch returns null
getStoredState(apiKey) ==
    IF webhook_state[apiKey] = <<>> THEN NullState
    ELSE IF webhook_state[apiKey][1] = Unparseable THEN NullState
    ELSE webhook_state[apiKey][1]

\* storedState?.tasks || {}
OldTasksMap(storedState) ==
    IF storedState = NullState THEN EmptyMap ELSE storedState.tasks

\* mutant: the new state starts empty instead of from the stored tasks
MergeBaseEmpty(oldTasksMap) == EmptyMap

\* tasks: { ...oldTasksMap }
MergeBase(oldTasksMap) == oldTasksMap

\* mutant: the baseline loop stores nothing
StoreBaselineNothing(newTasks, keys, currentTasksMap) == newTasks

RECURSIVE StoreBaseline(_, _, _)
\* the first-poll loop: newState.tasks[taskId] = taskToStoredState(currentTask)
StoreBaseline(newTasks, keys, currentTasksMap) ==
    IF keys = <<>> THEN newTasks
    ELSE StoreBaseline(Put(newTasks, Head(keys), taskToStoredState(currentTasksMap[Head(keys)])),
                       Tail(keys), currentTasksMap)

\* mutant: a task without a stored snapshot is not skipped
SkipUnseenNever(oldTaskState) == FALSE

\* if (!oldTaskState) continue
SkipUnseen(oldTaskState) == oldTaskState = NullState

(* ----------------------------- dispatcher ------------------------------ *)
Responses == { <<200>>, <<500>>, <<>> }     \* a status, or <<>> for a transport error

\* { task: currentTask, changes: change.changes }, an undefined member left out
PayloadData(currentTask, change) ==
    IF "changes" \in DOMAIN change
    THEN [ task |-> currentTask, changes |-> change.changes ]
    ELSE [ task |-> currentTask ]

createWebhookPayload(event, apiKey, data) ==
    [ event |-> event, apiKey |-> apiKey, data |-> data ]

\* whether dispatchWebhook sends the POST
Sends(cfg, payload) == ~(cfg.events # {} /\ payload.event \notin cfg.events)

dispatchWebhook(cfg, payload, response) ==
    IF ~Sends(cfg, payload) THEN [success |-> TRUE]
    ELSE IF response = <<>> THEN [success |-> FALSE, error |-> "error"]
    ELSE IF response[1] \in 200..299 THEN [success |-> TRUE, statusCode |-> response[1]]
    ELSE [success |-> FALSE, statusCode |-> response[1], error |-> "errorText"]

(* ------------------------------ pollForUser ---------------------------- *)
Idle == [ pc |-> "idle" ]

NewCycle(id, apiKey, scope) ==
    [ pc |-> "fetch", id |-> id, apiKey |-> apiKey, scope |-> scope,
      keys |-> <<>>, currentTasksMap |-> EmptyMap,
      oldTasksMap |-> EmptyMap, isFirstPoll |-> FALSE, newTasks |-> EmptyMap,
      todo |-> <<>>, taskId |-> NULL, change |-> NoChange, written |-> EmptyMap,
      checked |-> {}, suppressed |-> {} ]

RECURSIVE RunLoop(_)
\* the loop over currentTasksMap, from the next entry up to the next await
RunLoop(cy) ==
    IF cy.todo = <<>> THEN [ cy EXCEPT !.pc = "saveStoredState", !.taskId = NULL,
                                       !.change = NoChange ]
    ELSE LET taskId == Head(cy.todo)
             currentTask == cy.currentTasksMap[taskId]
             oldTaskState == IF taskId \in DOMAIN cy.oldTasksMap
                             THEN cy.oldTasksMap[taskId] ELSE NullState
             newTaskState == taskToStoredState(currentTask)
             next == [ cy EXCEPT !.todo = Tail(@),
                                 !.newTasks = Put(@, taskId, newTaskState) ]
             change == detectChanges(oldTaskState, newTaskState)
         IN  IF SkipUnseen(oldTaskState) THEN RunLoop(next)
             ELSE IF change # NoChange
                  THEN [ next EXCEPT !.pc = "checkApiChange", !.taskId = taskId,
                                     !.change = change ]
                  ELSE RunLoop(next)

\* mutant: only the tasks of this fetch are saved
StateToSaveObservedOnly(cy) ==
    [ tasks |-> [ t \in DOMAIN cy.currentTasksMap |-> cy.newTasks[t] ] ]

\* what saveStoredState is given
StateToSave(cy) == [ tasks |-> cy.newTasks ]

Active(c) == cycles[c].pc # "idle"
SetCycle(c, cy) == cycles' = [ cycles EXCEPT ![c] = cy ]

\* what the fetches of a cycle return: the Map built from backlog and day tasks
FetchAll(scope) ==
    LET days == getDaysForScope(scope, config, clock.now, clock.tz)
        includeBacklog == scope = "today"
        backlogTasks == IF includeBacklog THEN getTasksBacklog ELSE <<>>
        dayTasks == IF Len(days) > 0 THEN fetchTasksWithRateLimit(days) ELSE <<>>
        allTasks == backlogTasks \o dayTasks
    IN  MapOfTasks(allTasks, [keys |-> <<>>, map |-> EmptyMap])

\* a tier's timer (or the initial poll) calls pollForUser, and its fetches resolve
BeginCycle(slots, limit, apiKey, scope) ==
    /\ started < limit
    /\ \E c \in slots :
          /\ ~Active(c)
          /\ \A b \in slots : b < c => Active(b)
          /\ SetCycle(c, [ NewCycle(started + 1, apiKey, scope) EXCEPT
                              !.pc = "getStoredState",
                              !.keys = FetchAll(scope).keys,
                              !.currentTasksMap = FetchAll(scope).map ])
    /\ started' = started + 1
    /\ UNCHANGED <<tasks, place, webhook_state, api_change, webhooks, realChanges, edits>>

\* pollForUser called with the poll functions left out of the picture
StartCycle(slots, limit, apiKey, scope) ==
    BeginCycle(slots, limit, apiKey, scope) /\ UNCHANGED aux

\* pollForUser is called and a fetch rejects: the catch block logs, the call returns
BeginFailedCycle(limit, apiKey, scope) ==
    /\ started < limit
    /\ started' = started + 1
    /\ UNCHANGED <<tasks, place, webhook_state, api_change, cycles, webhooks, realChanges, edits>>

\* the same with the poll functions left out of the picture
FetchFails(limit, apiKey, scope) ==
    BeginFailedCycle(limit, apiKey, scope) /\ UNCHANGED aux

\* getStoredState resolves; the code runs on to its next await
Load(c) ==
    /\ Active(c) /\ cycles[c].pc = "getStoredState"
    /\ LET cy == cycles[c]
           oldTasksMap == OldTasksMap(getStoredState(cy.apiKey))
           isFirstPoll == DOMAIN oldTasksMap = {}
           loaded == [ cy EXCEPT !.oldTasksMap = oldTasksMap, !.isFirstPoll = isFirstPoll,
                                 !.newTasks = MergeBase(oldTasksMap) ]
       IN  IF isFirstPoll
           THEN SetCycle(c, [ loaded EXCEPT !.pc = "saveStoredState",
                    !.newTasks = StoreBaseline(@, cy.keys, cy.currentTasksMap) ])
           ELSE SetCycle(c, RunLoop([ loaded EXCEPT !.todo = cy.keys ]))
    /\ UNCHANGED <<tasks, place, webhook_state, api_change, started, webhooks, realChanges, edits, aux>>

\* checkApiChange: redis.get resolves; without a marker the webhook is dispatched and
\* entered in the log after the entries `kept`
CheckApiChangeLogging(c, kept) ==
    /\ Active(c) /\ cycles[c].pc = "checkApiChange"
    /\ LET cy == cycles[c]
           value == api_change[cy.apiKey][cy.taskId]
           seen == [ cy EXCEPT !.checked = @ \cup {cy.taskId} ]
           payload == createWebhookPayload(cy.change.event, cy.apiKey,
                          PayloadData(cy.currentTasksMap[cy.taskId], cy.change))
       IN  IF value # NULL
           THEN /\ SetCycle(c, [ seen EXCEPT !.pc = "del" ])
                /\ UNCHANGED webhooks
           ELSE /\ SetCycle(c, [ seen EXCEPT !.pc = "dispatchWebhook" ])
                /\ webhooks' = Append(kept,
                       [ cycle |-> cy.id, payload |-> payload, posted |-> Sends(config, payload),
                         saved |-> FALSE ])
    /\ UNCHANGED <<tasks, place, webhook_state, api_change, started, realChanges, edits, aux>>

\* the same, the log keeping every call of dispatchWebhook
CheckApiChange(c) == CheckApiChangeLogging(c, webhooks)

\* mutant: the marker of the task is deleted under every API key
RemoveMarkerEveryKey(c) ==
    /\ Active(c) /\ cycles[c].pc = "del"
    /\ LET cy == cycles[c]
       IN  /\ api_change' = [ k \in DOMAIN api_change |->
                                 [ api_change[k] EXCEPT ![cy.taskId] = NULL ] ]
           /\ SetCycle(c, RunLoop([ cy EXCEPT !.suppressed = @ \cup {cy.taskId} ]))
    /\ UNCHANGED <<tasks, place, webhook_state, started, realChanges, edits, aux>>

\* checkApiChange: redis.del resolves; the change is skipped
RemoveMarker(c) ==
    /\ Active(c) /\ cycles[c].pc = "del"
    /\ LET cy == cycles[c]
       IN  /\ api_change' = [ api_change EXCEPT ![cy.apiKey][cy.taskId] = NULL ]
           /\ SetCycle(c, RunLoop([ cy EXCEPT !.suppressed = @ \cup {cy.taskId} ]))
    /\ UNCHANGED <<tasks, place, webhook_state, started, realChanges, edits, aux>>

\* the same, the skipped change entered in the log of webhooks as suppressed, with the
\* number of the task's fingerprint transitions so far (the program keeps no such record)
DeleteMarkerNoted(c) ==
    /\ RemoveMarker(c)
    /\ LET cy == cycles[c]
       IN  webhooks' = Append(webhooks,
               [ cycle |-> cy.id,
                 payload |-> createWebhookPayload(cy.change.event, cy.apiKey,
                                 PayloadData(cy.currentTasksMap[cy.taskId], cy.change)),
                 posted |-> FALSE, saved |-> FALSE, suppressed |-> TRUE,
                 change |-> realChanges[cy.taskId] ])

\* mutant: the marker is left in the store
DeleteMarkerKeepsMarker(c) ==
    /\ Active(c) /\ cycles[c].pc = "del"
    /\ LET cy == cycles[c]
       IN  SetCycle(c, RunLoop([ cy EXCEPT !.suppressed = @ \cup {cy.taskId} ]))
    /\ UNCHANGED <<tasks, place, webhook_state, api_change, started, webhooks, realChanges, edits, aux>>

\* the same, the log of webhooks holding calls of dispatchWebhook only
DeleteMarker(c) == RemoveMarker(c) /\ UNCHANGED webhooks

\* dispatchWebhook resolves, whatever the delivery result, which pollForUser drops
DispatchReturn(c) ==
    /\ Active(c) /\ cycles[c].pc = "dispatchWebhook"
    /\ \E response \in Responses :
          /\ dispatchWebhook(config, webhooks[Len(webhooks)].payload, response).success
                \in BOOLEAN
          /\ SetCycle(c, RunLoop(cycles[c]))
    /\ UNCHANGED <<tasks, place, webhook_state, api_change, started, webhooks, realChanges, edits, aux>>

\* the place in the log of the webhook a cycle dispatched last
LastSent(id) ==
    CHOOSE i \in 1..Len(webhooks) :
        webhooks[i].cycle = id /\ \A j \in (i + 1)..Len(webhooks) : webhooks[j].cycle # id

\* mutant: a failed delivery ends the loop over the tasks
DeliveryReturnsBreaking(c) ==
    /\ Active(c) /\ cycles[c].pc = "dispatchWebhook"
    /\ \E response \in Responses :
          LET i == LastSent(cycles[c].id)
              result == dispatchWebhook(config, webhooks[i].payload, response)
          IN  /\ webhooks' = [ webhooks EXCEPT ![i] = [ result |-> result ] @@ @ ]
              /\ IF result.success
                 THEN SetCycle(c, RunLoop(cycles[c]))
                 ELSE SetCycle(c, [ cycles[c] EXCEPT !.pc = "saveStoredState", !.todo = <<>>,
                                       !.taskId = NULL, !.change = NoChange ])
    /\ UNCHANGED <<tasks, place, webhook_state, api_change, started, realChanges, edits, aux>>

\* mutant: the state is saved after each dispatch
DeliveryReturnsSaving(c) ==
    /\ Active(c) /\ cycles[c].pc = "dispatchWebhook"
    /\ \E response \in Responses :
          LET i == LastSent(cycles[c].id)
              result == dispatchWebhook(config, webhooks[i].payload, response)
          IN  /\ webhooks' = [ webhooks EXCEPT ![i] = [ result |-> result ] @@ @ ]
              /\ SetCycle(c, RunLoop(cycles[c]))
    /\ webhook_state' = [ webhook_state EXCEPT ![cycles[c].apiKey] = <<StateToSave(cycles[c])>> ]
    /\ UNCHANGED <<tasks, place, api_change, started, realChanges, edits, aux>>

\* dispatchWebhook resolves, with the delivery result noted in the log of webhooks (the
\* program drops it)
DeliveryReturns(c) ==
    /\ Active(c) /\ cycles[c].pc = "dispatchWebhook"
    /\ \E response \in Responses :
          LET i == LastSent(cycles[c].id)
              result == dispatchWebhook(config, webhooks[i].payload, response)
          IN  /\ webhooks' = [ webhooks EXCEPT ![i] = [ result |-> result ] @@ @ ]
              /\ SetCycle(c, RunLoop(cycles[c]))
    /\ UNCHANGED <<tasks, place, webhook_state, api_change, started, realChanges, edits, aux>>

\* the log of webhooks once cycle `id` has saved: its entries are marked (the mark is
\* bookkeeping of the log, the program keeps no such record)
MarkSaved(log, id) ==
    [ i \in DOMAIN log |-> IF log[i].cycle = id THEN [ log[i] EXCEPT !.saved = TRUE ] ELSE log[i] ]

\* saveStoredState: redis.set resolves
Save(c) ==
    /\ Active(c) /\ cycles[c].pc = "saveStoredState"
    /\ webhook_state' = [ webhook_state EXCEPT ![cycles[c].apiKey] = <<StateToSave(cycles[c])>> ]
    /\ SetCycle(c, [ cycles[c] EXCEPT !.pc = "done", !.written = StateToSave(cycles[c]).tasks ])
    /\ webhooks' = MarkSaved(webhooks, cycles[c].id)
    /\ UNCHANGED <<tasks, place, api_change, started, realChanges, edits, aux>>

\* an awaited store call rejects: the catch block logs and pollForUser returns
Throw(c) ==
    /\ Active(c)
    /\ cycles[c].pc \in {"getStoredState", "checkApiChange", "del", "saveStoredState"}
    /\ SetCycle(c, Idle)
    /\ UNCHANGED <<tasks, place, webhook_state, api_change, started, webhooks, realChanges, edits, aux>>

\* pollForUser returns after its save
EndCycle(c) ==
    /\ Active(c) /\ cycles[c].pc = "done"
    /\ SetCycle(c, Idle)
    /\ UNCHANGED <<tasks, place, webhook_state, api_change, started, webhooks, realChanges, edits>>

\* the same with the poll functions left out of the picture
Return(c) == EndCycle(c) /\ UNCHANGED aux

(* ----------------------------- environment ----------------------------- *)
Mutations ==
    { "complete", "uncomplete", "snooze", "bucket", "relativeTo", "text", "dueDate",
      "timeEstimate", "notes", "streamIds" }

Flip(v, a, b) == IF v = a THEN b ELSE a

\* what a user of the task service does to a task
Mutate(task, m) ==
    CASE m = "complete" -> [ task EXCEPT !.completed = TRUE, !.completeDate = "2025-01-08" ]
      [] m = "uncomplete" -> [ task EXCEPT !.completed = FALSE, !.completeDate = NULL ]
      [] m = "snooze" -> [ task EXCEPT !.snoozeUntil = Flip(@, NULL, "2025-01-09") ]
      [] m = "bucket" -> [ task EXCEPT !.timeHorizonType = Flip(@, NULL, "week") ]
      [] m = "relativeTo" -> [ task EXCEPT !.timeHorizonRelativeTo = Flip(@, NULL, "2025-01-06") ]
      [] m = "text" -> [ task EXCEPT !.text = Flip(@, "Buy milk", "Buy eggs") ]
      [] m = "dueDate" -> [ task EXCEPT !.dueDate = Flip(@, NULL, "2025-01-10") ]
      [] m = "timeEstimate" ->
            [ task EXCEPT !.timeEstimate =
                IF @ = <<>> THEN <<30>> ELSE IF @ = <<30>> THEN <<0>> ELSE <<>> ]
      [] m = "notes" -> [ task EXCEPT !.notes = Flip(@, "", "organic") ]
      [] m = "streamIds" -> [ task EXCEPT !.streamIds = Flip(@, <<>>, <<"s1">>) ]

\* a change of a task made at the task source
ExternalChange(limit, t, m) ==
    /\ edits < limit
    /\ Mutate(tasks[t], m) # tasks[t]
    /\ tasks' = [ tasks EXCEPT ![t] = Mutate(@, m) ]
    /\ realChanges' = [ realChanges EXCEPT ![t] =
           IF hashTaskState(tasks'[t]) # hashTaskState(tasks[t]) THEN @ + 1 ELSE @ ]
    /\ edits' = edits + 1
    /\ UNCHANGED <<place, webhook_state, api_change, cycles, started, webhooks, aux>>

\* the fields the write routes of the server change: PATCH /:id/complete, /snooze,
\* /notes, /planned-time, /due-date, /text, /stream
RouteMutations ==
    { "complete", "snooze", "notes", "timeEstimate", "dueDate", "text", "streamIds" }

\* a write route of the server: the handler calls the client's update and answers with
\* its result; realChanges, the changes made outside the server, is left alone
TaskRoute(limit, apiKey, id, m) ==
    /\ edits < limit
    /\ Mutate(tasks[id], m) # tasks[id]
    /\ tasks' = [ tasks EXCEPT ![id] = Mutate(@, m) ]
    /\ edits' = edits + 1
    /\ UNCHANGED <<place, webhook_state, api_change, cycles, started, webhooks, realChanges, aux>>

\* a task is moved to another day or to the backlog, or leaves every list
MoveTask(limit, t, p) ==
    /\ edits < limit
    /\ p # place[t]
    /\ place' = [ place EXCEPT ![t] = p ]
    /\ edits' = edits + 1
    /\ UNCHANGED <<tasks, webhook_state, api_change, cycles, started, webhooks, realChanges, aux>>

\* markApiChange: redis.set of the marker
markApiChange(apiKey, taskId, eventType) ==
    /\ api_change[apiKey][taskId] # eventType
    /\ api_change' = [ api_change EXCEPT ![apiKey][taskId] = eventType ]
    /\ UNCHANGED <<tasks, place, webhook_state, cycles, started, webhooks, realChanges, edits, aux>>

(* ------------------- checkApiChange, call by call ----------------------- *)
MaxChecks == 2          \* calls of checkApiChange
MaxMarks == 2           \* calls of markApiChange

\* the event types the write routes record
MarkerEvents == { "task.updated", "task.completed" }

\* markApiChange, the markers recorded being counted
MarkCall(apiKey, taskId, eventType) ==
    /\ checks.marks < MaxMarks
    /\ api_change' = [ api_change EXCEPT ![apiKey][taskId] = eventType ]
    /\ checks' = [ checks EXCEPT !.marks = @ + 1 ]
    /\ UNCHANGED <<tasks, place, webhook_state, cycles, started, webhooks, realChanges, edits,
                   dispatcherVars, schedulerVars, serverVars, calendarVars, bootVars,
                   compared, hashed, fetchCall, sessions, eventsEnv>>

\* checkApiChange is called: redis.get is awaited
CheckCall(apiKey, taskId) ==
    /\ Len(checks.calls) < MaxChecks
    /\ checks' = [ checks EXCEPT
          !.calls = Append(@, [ pc |-> "get", apiKey |-> apiKey, taskId |-> taskId,
                                value |-> NULL ]) ]
    /\ UNCHANGED <<watcherVars, dispatcherVars, schedulerVars, serverVars, calendarVars, bootVars,
                   compared, hashed, fetchCall, sessions, eventsEnv>>

\* redis.get resolves: a value is cleaned up by an awaited redis.del, null is returned
GetResolves(i) ==
    /\ i \in DOMAIN checks.calls /\ checks.calls[i].pc = "get"
    /\ LET value == api_change[checks.calls[i].apiKey][checks.calls[i].taskId]
       IN  checks' = [ checks EXCEPT !.calls[i].value = value,
                                     !.calls[i].pc = IF value # NULL THEN "del" ELSE "returned" ]
    /\ UNCHANGED <<watcherVars, dispatcherVars, schedulerVars, serverVars, calendarVars, bootVars,
                   compared, hashed, fetchCall, sessions, eventsEnv>>

\* redis.del resolves: the key is gone and the value read is returned
DelResolves(i) ==
    /\ i \in DOMAIN checks.calls /\ checks.calls[i].pc = "del"
    /\ api_change' = [ api_change EXCEPT
          ![checks.calls[i].apiKey][checks.calls[i].taskId] = NULL ]
    /\ checks' = [ checks EXCEPT !.calls[i].pc = "returned" ]
    /\ UNCHANGED <<tasks, place, webhook_state, cycles, started, webhooks, realChanges, edits,
                   dispatcherVars, schedulerVars, serverVars, calendarVars, bootVars,
                   compared, hashed, fetchCall, sessions, eventsEnv>>

\* write routes record markers while poll cycles check them
NextMarker ==
    \/ \E k \in ApiKeys, t \in TaskIds, e \in MarkerEvents : MarkCall(k, t, e)
    \/ \E k \in ApiKeys, t \in TaskIds : CheckCall(k, t)
    \/ \E i \in 1..MaxChecks : GetResolves(i)
    \/ \E i \in 1..MaxChecks : DelResolves(i)

\* the marker's TTL (EX ttlSeconds) runs out
ExpireMarker(apiKey, taskId) ==
    /\ api_change[apiKey][taskId] # NULL
    /\ api_change' = [ api_change EXCEPT ![apiKey][taskId] = NULL ]
    /\ UNCHANGED <<tasks, place, webhook_state, cycles, started, webhooks, realChanges, edits, aux>>

(* ------------------------ clock and week range -------------------------- *)
FirstDay == 8           \* the first local date the clock is drawn from (a Monday)
LastDay == 14           \* the last one (a Sunday)

\* the hours of the day, and the offsets of local time, the clock is drawn from
ClockHours == { 0, 12, 23 }
TimeZones == { -8, UTC, 3 }
Clocks ==
    { [ now |-> d * HoursPerDay + h - tz, tz |-> tz ] :
          d \in FirstDay..LastDay, h \in ClockHours, tz \in TimeZones }

RangeVariables ==
    { "WEBHOOK_POLL_WEEKS_PAST", "WEBHOOK_POLL_EXTRA_DAYS_PAST",
      "WEBHOOK_POLL_WEEKS_AHEAD", "WEBHOOK_POLL_EXTRA_DAYS_AHEAD" }
\* what such a variable is set to, NULL for unset
RangeValues == { NULL, "", "abc", "-1", "0", "2" }

\* parseInt(str, 10): <<>> for NaN
parseInt(str) ==
    CASE str = "-1" -> <<-1>>
      [] str = "0" -> <<0>>
      [] str = "1" -> <<1>>
      [] str = "2" -> <<2>>
      [] OTHER -> <<>>

\* parseInt(process.env[name] || fallback, 10), then isNaN(n) || n < 0 ? default : n
RangeSetting(env, name, fallback, default) ==
    LET n == parseInt(OrStr(env[name], fallback))
    IN  IF n = <<>> THEN default ELSE IF n[1] < 0 THEN default ELSE n[1]

\* loadWebhookConfig: the members of the week range
loadWebhookConfig(env) ==
    [ pollWeeksPast |-> RangeSetting(env, "WEBHOOK_POLL_WEEKS_PAST", "1", 1),
      pollExtraDaysPast |-> RangeSetting(env, "WEBHOOK_POLL_EXTRA_DAYS_PAST", "0", 0),
      pollWeeksAhead |-> RangeSetting(env, "WEBHOOK_POLL_WEEKS_AHEAD", "1", 1),
      pollExtraDaysAhead |-> RangeSetting(env, "WEBHOOK_POLL_EXTRA_DAYS_AHEAD", "0", 0) ]

\* the process starts with an environment: the configuration is loaded
LoadConfig(env) ==
    /\ webhookConfig = <<>>
    /\ webhookConfig' = << loadWebhookConfig(env) >>
    /\ UNCHANGED <<clock, dayset, bootVars, laterVars, watcherVars, dispatcherVars, schedulerVars, serverVars>>

\* a poll of a tier computes its days
GetDays(scope) ==
    /\ webhookConfig # <<>>
    /\ dayset' = [ dayset EXCEPT
          ![scope] = << getDaysForScope(scope, webhookConfig[1], clock.now, clock.tz) >> ]
    /\ UNCHANGED <<clock, webhookConfig, bootVars, laterVars, watcherVars, dispatcherVars, schedulerVars, serverVars>>

(* --------------------------- specifications ---------------------------- *)
\* the record a completed poll of every tier leaves for the initial tasks
BaselineState == [ tasks |-> [ t \in TaskIds |-> taskToStoredState(InitialTask(t)) ] ]

InitAt(places, clocks) ==
    /\ tasks = [ t \in TaskIds |-> InitialTask(t) ]
    /\ place = places
    /\ \E stored \in { <<>>, <<BaselineState>> } : webhook_state = [ k \in StoreKeys |-> stored ]
    /\ api_change = [ k \in StoreKeys |-> [ t \in TaskIds |-> NULL ] ]
    /\ cycles = [ c \in Slots |-> Idle ]
    /\ started = 0
    /\ webhooks = <<>>
    /\ realChanges = [ t \in TaskIds |-> 0 ]
    /\ edits = 0
    /\ delivery = [ pc |-> "idle", id |-> 0 ]
    /\ posts = <<>>
    /\ receipts = <<>>
    /\ isRunning = FALSE
    /\ timers = [ s \in Scopes |-> FALSE ]
    /\ initialPoll = 0
    /\ passes = {}
    /\ request = [ pc |-> "none" ]
    /\ served = 0
    /\ clock \in clocks
    /\ webhookConfig = <<>>
    /\ dayset = [ s \in Scopes |-> <<>> ]
    /\ boot = [ pc |-> "off" ]
    /\ compared = [ done |-> FALSE ]
    /\ hashed = [ done |-> FALSE ]
    /\ fetchCall = [ pc |-> "idle" ]
    /\ sessions = [ map |-> <<>>, calls |-> <<>>, clients |-> 0, epoch |-> 0 ]
    /\ checks = [ marks |-> 0, calls |-> <<>> ]
    /\ eventsEnv = [ loaded |-> FALSE ]

\* noon of the current date, the process running in UTC
TodayNoon == [ now |-> Today * HoursPerDay + 12, tz |-> UTC ]
InitWith(places) == InitAt(places, {TodayNoon})

\* T1 is due today, T2 tomorrow
Init == InitWith([ t \in TaskIds |-> IF t = "T1" THEN OnDay(Today) ELSE OnDay(Today + 1) ])
\* both tasks are due today
InitSameDay == InitWith([ t \in TaskIds |-> OnDay(Today) ])

CycleStep(slots) ==
    \E c \in slots :
        \/ Load(c)
        \/ CheckApiChange(c)
        \/ DeleteMarker(c)
        \/ DispatchReturn(c)
        \/ Save(c)
        \/ Throw(c)
        \/ Return(c)

\* the mutations the overlapping-cycles specification draws from
OverlapMutations == { "complete", "dueDate" }

\* no cycle of the tier is in flight: the tier's previous pass has finished
TierIdle(scope) == \A c \in Slots : Active(c) => cycles[c].scope # scope

\* cycles of different tiers, two of them in flight at a time
Next ==
    \/ \E t \in TaskIds, m \in OverlapMutations : ExternalChange(MaxOverlapEdits, t, m)
    \/ \E k \in ApiKeys, t \in TaskIds : markApiChange(k, t, "task.updated")
    \/ \E k \in ApiKeys, t \in TaskIds : ExpireMarker(k, t)
    \/ \E k \in ApiKeys, s \in Scopes : TierIdle(s) /\ StartCycle(Slots, MaxOverlapCycles, k, s)
    \/ \E k \in ApiKeys, s \in Scopes : FetchFails(MaxOverlapCycles, k, s)
    \/ CycleStep(Slots)

Spec == Init /\ [][Next]_vars

Places == { Backlog, Nowhere, OnDay(Today), OnDay(Today + 1), OnDay(Today + 7), OnDay(Today - 7) }

\* the task whose every mutation and place the one-cycle-at-a-time specification draws
EditedTask == "T1"
NoCycle == \A c \in Slots : ~Active(c)

\* one cycle at a time, every mutation and every place of one task; an edit made while
\* the cycle runs is seen by the next cycle only, as one made right after it
NextSeq ==
    \/ \E m \in Mutations : NoCycle /\ ExternalChange(MaxEdits, EditedTask, m)
    \/ \E p \in Places : NoCycle /\ MoveTask(MaxEdits, EditedTask, p)
    \/ \E k \in ApiKeys : markApiChange(k, EditedTask, "task.updated")
    \/ \E k \in ApiKeys : ExpireMarker(k, EditedTask)
    \/ \E k \in ApiKeys, s \in Scopes : StartCycle({1}, MaxCycles, k, s)
    \/ \E k \in ApiKeys, s \in Scopes : FetchFails(MaxCycles, k, s)
    \/ CycleStep({1})

SpecSeq == Init /\ [][NextSeq]_vars

\* the stored record of a subscriber is damaged in the store
DamageState(apiKey) ==
    /\ webhook_state[apiKey] # <<>> /\ webhook_state[apiKey] # <<Unparseable>>
    /\ webhook_state' = [ webhook_state EXCEPT ![apiKey] = <<Unparseable>> ]
    /\ UNCHANGED <<tasks, place, api_change, cycles, started, webhooks, realChanges, edits, aux>>

\* one cycle at a time, with a store whose record can get damaged between cycles
NextStore ==
    \/ \E m \in OverlapMutations : NoCycle /\ ExternalChange(MaxEdits, EditedTask, m)
    \/ \E k \in ApiKeys : NoCycle /\ DamageState(k)
    \/ \E k \in ApiKeys : markApiChange(k, EditedTask, "task.updated")
    \/ \E k \in ApiKeys : ExpireMarker(k, EditedTask)
    \/ \E k \in ApiKeys, s \in Scopes : StartCycle({1}, MaxCycles, k, s)
    \/ \E k \in ApiKeys, s \in Scopes : FetchFails(MaxCycles, k, s)
    \/ CycleStep({1})

SpecStore == Init /\ [][NextStore]_vars

\* one cycle at a time over two tasks of one tier, the delivery results noted
NextDelivery ==
    \/ \E t \in TaskIds, m \in OverlapMutations : NoCycle /\ ExternalChange(MaxEdits, t, m)
    \/ \E k \in ApiKeys : markApiChange(k, EditedTask, "task.updated")
    \/ \E k \in ApiKeys, s \in Scopes : StartCycle({1}, MaxCycles, k, s)
    \/ \E k \in ApiKeys, s \in Scopes : FetchFails(MaxCycles, k, s)
    \/ \E c \in {1} :
          \/ Load(c)
          \/ CheckApiChange(c)
          \/ DeleteMarker(c)
          \/ DeliveryReturns(c)
          \/ Save(c)
          \/ Throw(c)
          \/ Return(c)

SpecDelivery == InitSameDay /\ [][NextDelivery]_vars

\* one cycle at a time, every change of the task made through the server's write routes
NextApi ==
    \/ \E k \in ApiKeys, m \in RouteMutations : NoCycle /\ TaskRoute(MaxEdits, k, EditedTask, m)
    \/ \E k \in ApiKeys : markApiChange(k, EditedTask, "task.updated")
    \/ \E k \in ApiKeys : ExpireMarker(k, EditedTask)
    \/ \E k \in ApiKeys, s \in Scopes : StartCycle({1}, MaxCycles, k, s)
    \/ \E k \in ApiKeys, s \in Scopes : FetchFails(MaxCycles, k, s)
    \/ CycleStep({1})

SpecApi == Init /\ [][NextApi]_vars

NextCalendar ==
    \/ \E env \in [ RangeVariables -> RangeValues ] : LoadConfig(env)
    \/ \E scope \in Scopes : GetDays(scope)

\* the process started at any of the clocks
InitCalendar ==
    InitAt([ t \in TaskIds |-> IF t = "T1" THEN OnDay(Today) ELSE OnDay(Today + 1) ], Clocks)

SpecCalendar == InitCalendar /\ [][NextCalendar]_vars

\* one cycle at a time, the suppressed changes noted
NextSuppress ==
    \/ \E m \in Mutations : NoCycle /\ ExternalChange(MaxEdits, EditedTask, m)
    \/ \E k \in ApiKeys : markApiChange(k, EditedTask, "task.updated")
    \/ \E k \in ApiKeys : ExpireMarker(k, EditedTask)
    \/ \E k \in ApiKeys, s \in Scopes : StartCycle({1}, MaxCycles, k, s)
    \/ \E k \in ApiKeys, s \in Scopes : FetchFails(MaxCycles, k, s)
    \/ \E c \in {1} :
          \/ Load(c)
          \/ CheckApiChange(c)
          \/ DeleteMarkerNoted(c)
          \/ DispatchReturn(c)
          \/ Save(c)
          \/ Throw(c)
          \/ Return(c)

SpecSuppress == Init /\ [][NextSuppress]_vars

SpecMarker == Init /\ [][NextMarker]_vars

\* the cycles of two subscribers, two of them in flight at a time; both tasks are in the
\* today tier, each changes at the source and can get a marker under either API key
NextIsolation ==
    \/ \E t \in TaskIds : started = 0 /\ ExternalChange(MaxEdits, t, "complete")
    \/ \E k \in StoreKeys, t \in TaskIds : started = 0 /\ markApiChange(k, t, "task.updated")
    \/ \E k \in StoreKeys : StartCycle(Slots, MaxCycles, k, "today")
    \/ CycleStep(Slots)

SpecIsolation == InitSameDay /\ [][NextIsolation]_vars

\* cycles of different tiers, two of them in flight at a time, the delivery results
\* noted; no marker is set and no store call fails
NextOverlapDelivery ==
    \/ \E t \in TaskIds, m \in OverlapMutations : ExternalChange(MaxOverlapEdits, t, m)
    \/ \E k \in ApiKeys, s \in Scopes : TierIdle(s) /\ StartCycle(Slots, MaxOverlapCycles, k, s)
    \/ \E c \in Slots :
          \/ Load(c)
          \/ CheckApiChange(c)
          \/ DeliveryReturns(c)
          \/ Save(c)
          \/ Return(c)

SpecOverlapDelivery == Init /\ [][NextOverlapDelivery]_vars

(* ----------------------- detectChanges on its own ---------------------- *)
\* the tasks one or two edits away from the initial task, and their snapshots
EditedTasks ==
    LET once == { Mutate(InitialTask(EditedTask), m) : m \in Mutations }
    IN  { InitialTask(EditedTask) } \cup once \cup { Mutate(task, m) : task \in once, m \in Mutations }
StoredStates == { taskToStoredState(task) : task \in EditedTasks }

\* detectChanges is called with a snapshot or null for each of its two arguments
Detect(oldState, newState) ==
    /\ ~compared.done
    /\ compared' = [ done |-> TRUE, oldState |-> oldState, newState |-> newState,
                     change |-> detectChanges(oldState, newState) ]
    /\ UNCHANGED <<watcherVars, dispatcherVars, schedulerVars, serverVars, calendarVars, bootVars,
                   moreVars>>

NextDetect ==
    \E oldState, newState \in StoredStates \cup { NullState } : Detect(oldState, newState)

SpecDetect == Init /\ [][NextDetect]_vars

(* ------------------------ the fingerprint on its own -------------------- *)
\* taskToStoredState called at an instant: the snapshot with its updatedAt
taskToStoredStateAt(task, now) == taskToStoredState(task) @@ [ updatedAt |-> now ]

\* what the members of a Task that hashTaskState does not read are drawn from
OtherMembers == { "m1", "m2" }
\* the instants the snapshots are taken at
SnapshotTimes == { Today * HoursPerDay + 12, Today * HoursPerDay + 13 }

\* the tasks one edit away from the initial task, and the task with two category tags in
\* either order
ObservedTasks ==
    { InitialTask(EditedTask) }
    \cup { Mutate(InitialTask(EditedTask), m) : m \in Mutations }
    \cup { [ InitialTask(EditedTask) EXCEPT !.streamIds = ids ] :
             ids \in { <<"s1", "s2">>, <<"s2", "s1">> } }

\* a task as the source returns it, every member included
Observations == { task @@ [ other |-> o ] : task \in ObservedTasks, o \in OtherMembers }

\* a task is observed by two polls: each takes its snapshot, the later poll compares them
Snapshot(a, b, t1, t2) ==
    /\ ~hashed.done
    /\ LET oldState == taskToStoredStateAt(a, t1)
           newState == taskToStoredStateAt(b, t2)
       IN  hashed' = [ done |-> TRUE, a |-> a, b |-> b, oldState |-> oldState,
                       newState |-> newState, change |-> detectChanges(oldState, newState) ]
    /\ UNCHANGED <<watcherVars, dispatcherVars, schedulerVars, serverVars, calendarVars, bootVars,
                   compared, fetchCall, sessions, checks, eventsEnv>>

NextHash ==
    \E a, b \in Observations, t1, t2 \in SnapshotTimes : Snapshot(a, b, t1, t2)

SpecHash == Init /\ [][NextHash]_vars

(* ------------------ fetchTasksWithRateLimit, step by step ---------------- *)
MaxDays == 5            \* days given to fetchTasksWithRateLimit
MaxBatchSize == 3       \* its batch size

\* the arguments the call is drawn from: the next n days, any batch size
DayLists == { [ k \in 1..n |-> Today + k - 1 ] : n \in 0..MaxDays }
BatchSizes == 1..MaxBatchSize

\* days.slice(i, i + batchSize), as positions in days
BatchAt(days, i, batchSize) ==
    { k \in 1..Len(days) : i < k /\ k <= i + batchSize }

\* batch.map(day => client.getTasksByDay(day)): a fetch is started for each day of the batch
StartBatch(call, i) ==
    [ call EXCEPT !.pc = "fetching", !.i = i,
                  !.inflight = BatchAt(call.days, i, call.batchSize),
                  !.fetches = [ k \in DOMAIN call.days |->
                                   IF k \in BatchAt(call.days, i, call.batchSize)
                                   THEN @[k] + 1 ELSE @[k] ],
                  !.batches = @ + 1 ]

\* fetchTasksWithRateLimit is called: without days the loop is not entered, else the first
\* batch is started
FetchCall(days, batchSize) ==
    /\ fetchCall.pc = "idle"
    /\ LET call == [ pc |-> "returned", days |-> days, batchSize |-> batchSize, i |-> 0,
                     inflight |-> {}, failed |-> {}, allTasks |-> <<>>,
                     fetches |-> [ k \in DOMAIN days |-> 0 ], batches |-> 0, delays |-> 0 ]
       IN  fetchCall' = IF 0 < Len(days) THEN StartBatch(call, 0) ELSE call
    /\ UNCHANGED <<watcherVars, dispatcherVars, schedulerVars, serverVars, calendarVars, bootVars,
                   compared, hashed, sessions, checks, eventsEnv>>

\* what the loop does once Promise.all has resolved: the results are pushed in the order
\* of the batch, then the delay is awaited unless the batch was the last
AfterBatch(call) ==
    LET pushed == [ call EXCEPT !.allTasks =
                       @ \o SubSeq(call.days, call.i + 1,
                                   IF call.i + call.batchSize < Len(call.days)
                                   THEN call.i + call.batchSize ELSE Len(call.days)) ]
    IN  IF call.i + call.batchSize < Len(call.days)
        THEN [ pushed EXCEPT !.pc = "delay", !.delays = @ + 1 ]
        ELSE [ pushed EXCEPT !.pc = "returned" ]

\* mutant: the loop goes on as soon as one fetch of the batch has resolved
DayFetchResolvesRace(k) ==
    /\ fetchCall.pc # "idle" /\ k \in fetchCall.inflight
    /\ LET landed == [ fetchCall EXCEPT !.inflight = @ \ {k} ]
       IN  fetchCall' = IF fetchCall.pc = "fetching" THEN AfterBatch(landed) ELSE landed
    /\ UNCHANGED <<watcherVars, dispatcherVars, schedulerVars, serverVars, calendarVars, bootVars,
                   compared, hashed, sessions, checks, eventsEnv>>

\* getTasksByDay resolves for a day; Promise.all resolves with the last fetch of the batch
DayFetchResolves(k) ==
    /\ fetchCall.pc # "idle" /\ k \in fetchCall.inflight
    /\ LET landed == [ fetchCall EXCEPT !.inflight = @ \ {k} ]
       IN  fetchCall' = IF fetchCall.pc = "fetching" /\ landed.inflight = {}
                        THEN AfterBatch(landed) ELSE landed
    /\ UNCHANGED <<watcherVars, dispatcherVars, schedulerVars, serverVars, calendarVars, bootVars,
                   compared, hashed, sessions, checks, eventsEnv>>

\* getTasksByDay rejects for a day: Promise.all rejects and the call throws; the other
\* fetches of the batch stay in flight
DayFetchRejects(k) ==
    /\ fetchCall.pc # "idle" /\ k \in fetchCall.inflight
    /\ fetchCall' = [ fetchCall EXCEPT !.inflight = @ \ {k}, !.failed = @ \cup {k},
                                       !.pc = IF @ = "fetching" THEN "rejected" ELSE @ ]
    /\ UNCHANGED <<watcherVars, dispatcherVars, schedulerVars, serverVars, calendarVars, bootVars,
                   compared, hashed, sessions, checks, eventsEnv>>

\* delay(delayMs) resolves: the loop steps to the next batch
DelayElapses ==
    /\ fetchCall.pc = "delay"
    /\ fetchCall' = StartBatch(fetchCall, fetchCall.i + fetchCall.batchSize)
    /\ UNCHANGED <<watcherVars, dispatcherVars, schedulerVars, serverVars, calendarVars, bootVars,
                   compared, hashed, sessions, checks, eventsEnv>>

NextFetch ==
    \/ \E days \in DayLists, batchSize \in BatchSizes : FetchCall(days, batchSize)
    \/ \E k \in 1..MaxDays : DayFetchResolves(k)
    \/ \E k \in 1..MaxDays : DayFetchRejects(k)
    \/ DelayElapses

SpecFetch == Init /\ [][NextFetch]_vars

(* ------------------------------ liveness ------------------------------- *)
LiveTiers == { "today", "week" }
\* the slot the invocations of a tier's timer run in
TierSlot == [ today |-> 1, week |-> 2 ]

\* a tier's interval fires once the tier's previous invocation has returned: pollForUser
\* is called and its fetches resolve; the invocation is named by its slot
TimerCycle(apiKey, scope) ==
    /\ ~Active(TierSlot[scope])
    /\ SetCycle(TierSlot[scope],
          [ NewCycle(TierSlot[scope], apiKey, scope) EXCEPT
               !.pc = "getStoredState",
               !.keys = FetchAll(scope).keys,
               !.currentTasksMap = FetchAll(scope).map ])
    /\ UNCHANGED <<tasks, place, webhook_state, api_change, started, webhooks, realChanges,
                   edits, aux>>

\* checkApiChange, the log keeping the latest call of dispatchWebhook only
CheckApiChangeLatest(c) == CheckApiChangeLogging(c, <<>>)

\* the subscriber's stored record has a snapshot of the task
HasSnapshot(apiKey, t) ==
    /\ getStoredState(apiKey) # NullState
    /\ t \in DOMAIN getStoredState(apiKey).tasks

MaxLiveEdits == 1       \* edits of the task source, timers firing for ever

\* the timers of two tiers firing for ever, no call failing, no marker set; the task is
\* changed while it has a stored snapshot and is left alone afterwards
NextLive ==
    \/ \E k \in ApiKeys, m \in OverlapMutations :
          HasSnapshot(k, EditedTask) /\ ExternalChange(MaxLiveEdits, EditedTask, m)
    \/ \E k \in ApiKeys, s \in LiveTiers : TimerCycle(k, s)
    \/ \E c \in Slots :
          \/ Load(c)
          \/ CheckApiChangeLatest(c)
          \/ DispatchReturn(c)
          \/ Save(c)
          \/ Return(c)

\* every timer fires again and again, every awaited call resolves
FairLive ==
    /\ \A s \in LiveTiers : WF_vars(\E k \in ApiKeys : TimerCycle(k, s))
    /\ \A c \in Slots :
          /\ WF_vars(Load(c))
          /\ WF_vars(CheckApiChangeLatest(c))
          /\ WF_vars(DispatchReturn(c))
          /\ WF_vars(Save(c))
          /\ WF_vars(Return(c))

SpecLive == Init /\ [][NextLive]_vars /\ FairLive

(* ------------------------ startWatcher, stopWatcher -------------------- *)
MaxWatcherCycles == 2   \* pollForUser invocations under the poll functions
MaxPasses == 4          \* poll functions in flight
MaxPendingPolls == 1    \* initial-poll timeouts pending

NewPass(scope) == [ scope |-> scope, i |-> 1, awaiting |-> 0 ]
AllTiers == << "today", "week", "past", "future" >>

\* startWatcher: refused while running or without clients; else the flag is set, the
\* initial poll is put on a 5 s timeout and the four interval timers are set
\* mutant: a running watcher is started again
startWatcherWithAgain(watcherClients) ==
    IF Len(watcherClients) = 0
    THEN UNCHANGED schedulerVars
    ELSE /\ isRunning' = TRUE
         /\ initialPoll' = initialPoll + 1
         /\ timers' = [ s \in Scopes |-> TRUE ]
         /\ UNCHANGED passes

startWatcherWith(watcherClients) ==
    IF isRunning \/ Len(watcherClients) = 0
    THEN UNCHANGED schedulerVars
    ELSE /\ isRunning' = TRUE
         /\ initialPoll' = initialPoll + 1
         /\ timers' = [ s \in Scopes |-> TRUE ]
         /\ UNCHANGED passes

\* startWatcher called with the clients of the model
startWatcher ==
    /\ initialPoll < MaxPendingPolls
    /\ startWatcherWith(clients)
    /\ UNCHANGED <<watcherVars, dispatcherVars, serverVars, otherVars>>

\* stopWatcher: the four intervals are cleared and the flag reset
stopWatcher ==
    /\ timers' = [ s \in Scopes |-> FALSE ]
    /\ isRunning' = FALSE
    /\ UNCHANGED <<initialPoll, passes>>
    /\ UNCHANGED <<watcherVars, dispatcherVars, serverVars, otherVars>>

\* the 5 s timeout fires: Promise.all([pollToday(), pollWeek(), pollPast(), pollFuture()])
InitialPollFires ==
    /\ initialPoll > 0 /\ started < MaxWatcherCycles
    /\ Cardinality(passes) + Len(AllTiers) <= MaxPasses
    /\ initialPoll' = initialPoll - 1
    /\ passes' = passes \cup { NewPass(AllTiers[n]) : n \in 1..Len(AllTiers) }
    /\ UNCHANGED <<isRunning, timers>>
    /\ UNCHANGED <<watcherVars, dispatcherVars, serverVars, otherVars>>

\* a tier's interval fires and calls its poll function
TimerFires(scope) ==
    /\ timers[scope] /\ started < MaxWatcherCycles
    /\ Cardinality(passes) < MaxPasses
    /\ NewPass(scope) \notin passes
    /\ passes' = passes \cup {NewPass(scope)}
    /\ UNCHANGED <<isRunning, timers, initialPoll>>
    /\ UNCHANGED <<watcherVars, dispatcherVars, serverVars, otherVars>>

\* the poll function whose await has resolved: its loop goes to the next client, or ends
Advance(p) ==
    IF p.i = Len(clients)
    THEN passes \ {p}
    ELSE (passes \ {p}) \cup { [ p EXCEPT !.i = @ + 1, !.awaiting = 0 ] }

\* mutant: pollForUser is called for the next client without being awaited
PollNextClientNotAwaiting(p) ==
    /\ p \in passes /\ p.awaiting = 0
    /\ BeginCycle(Slots, MaxWatcherCycles, clients[p.i], p.scope)
    /\ passes' = Advance(p)
    /\ UNCHANGED <<isRunning, timers, initialPoll, dispatcherVars, serverVars, otherVars>>

\* a poll function calls pollForUser for its next client and awaits it
PollNextClient(p) ==
    /\ p \in passes /\ p.awaiting = 0
    /\ BeginCycle(Slots, MaxWatcherCycles, clients[p.i], p.scope)
    /\ passes' = (passes \ {p}) \cup { [ p EXCEPT !.awaiting = started + 1 ] }
    /\ UNCHANGED <<isRunning, timers, initialPoll, dispatcherVars, serverVars, otherVars>>

\* mutant: a rejected fetch ends the poll function
PollNextClientFailsAborting(p) ==
    /\ p \in passes /\ p.awaiting = 0
    /\ BeginFailedCycle(MaxWatcherCycles, clients[p.i], p.scope)
    /\ passes' = passes \ {p}
    /\ UNCHANGED <<isRunning, timers, initialPoll, dispatcherVars, serverVars, otherVars>>

\* the same when a fetch of that call rejects: pollForUser catches and returns, and
\* the loop goes on
PollNextClientFails(p) ==
    /\ p \in passes /\ p.awaiting = 0
    /\ BeginFailedCycle(MaxWatcherCycles, clients[p.i], p.scope)
    /\ passes' = Advance(p)
    /\ UNCHANGED <<isRunning, timers, initialPoll, dispatcherVars, serverVars, otherVars>>

\* the awaited pollForUser returns and its poll function goes on
PassResumes(c) ==
    /\ EndCycle(c)
    /\ \E p \in passes : p.awaiting = cycles[c].id /\ passes' = Advance(p)
    /\ UNCHANGED <<isRunning, timers, initialPoll, dispatcherVars, serverVars, otherVars>>

\* nothing has been started yet
BeforeStart == ~isRunning /\ initialPoll = 0 /\ passes = {} /\ started = 0

NextWatcher ==
    \/ startWatcher
    \/ stopWatcher
    \/ InitialPollFires
    \/ \E s \in Scopes : TimerFires(s)
    \/ \E p \in passes : PollNextClient(p)
    \/ \E p \in passes : PollNextClientFails(p)
    \/ BeforeStart /\ ExternalChange(MaxOverlapEdits, EditedTask, "complete")
    \/ \E k \in ApiKeys : BeforeStart /\ markApiChange(k, EditedTask, "task.updated")
    \/ \E c \in Slots :
          \/ Load(c)
          \/ CheckApiChange(c)
          \/ DeleteMarker(c)
          \/ DispatchReturn(c)
          \/ Save(c)
          \/ PassResumes(c)

SpecWatcher == Init /\ [][NextWatcher]_vars

(* -------------------------------- main --------------------------------- *)
\* the environment variables main() depends on, and the values they are drawn from
\* (NULL for unset)
Environments ==
    [ WEBHOOK_ENABLED : { NULL, "true", "TRUE", "false" },
      WEBHOOK_URL : { NULL, "", "hooks.example/in", "https://hooks.example/in" },
      WEBHOOK_SECRET : { NULL, "", "s1" },
      REDIS_URL : { NULL, "redis://store:6379" },
      REDIS_HOST : { NULL, "", "store" } ]

\* process.env[name]?.toLowerCase() === 'true'
IsTrue(value) == value \in { "true", "TRUE" }
\* whether new URL(url) returns
ParsesAsURL(url) == url \in { "https://hooks.example/in" }
\* !value
Falsy(value) == value \in { NULL, "" }

\* loadConfig: the members validateConfig and main read
loadConfig(env) ==
    [ webhook |-> [ enabled |-> IsTrue(env.WEBHOOK_ENABLED),
                    url |-> OrStr(env.WEBHOOK_URL, ""),
                    secret |-> OrStr(env.WEBHOOK_SECRET, "") ],
      redis |-> [ url |-> env.REDIS_URL, host |-> env.REDIS_HOST ] ]

NoError == "none"

\* mutant: the store coordinates are not validated
validateConfigNoStore(cfg) ==
    IF ~cfg.webhook.enabled THEN NoError
    ELSE IF Falsy(cfg.webhook.url) THEN "ConfigError: WEBHOOK_URL is required"
    ELSE IF Falsy(cfg.webhook.secret) THEN "ConfigError: WEBHOOK_SECRET is required"
    ELSE IF ~ParsesAsURL(cfg.webhook.url) THEN "ConfigError: Invalid WEBHOOK_URL"
    ELSE NoError

\* validateConfig: the ConfigError it throws, or none
validateConfig(cfg) ==
    IF ~cfg.webhook.enabled THEN NoError
    ELSE IF Falsy(cfg.webhook.url) THEN "ConfigError: WEBHOOK_URL is required"
    ELSE IF Falsy(cfg.webhook.secret) THEN "ConfigError: WEBHOOK_SECRET is required"
    ELSE IF ~ParsesAsURL(cfg.webhook.url) THEN "ConfigError: Invalid WEBHOOK_URL"
    ELSE IF Falsy(cfg.redis.url) /\ Falsy(cfg.redis.host) THEN "ConfigError: Redis is required"
    ELSE NoError

\* main() up to its first await: initializeApp throws and the catch exits, or, webhooks
\* disabled, the server listens, or initRedis opens the store connection and the first
\* login is awaited
Main(env) ==
    /\ boot.pc = "off"
    /\ LET cfg == loadConfig(env)
           error == validateConfig(cfg)
       IN  boot' =
             IF error # NoError
             THEN [ pc |-> "exited", env |-> env, error |-> error, redis |-> FALSE ]
             ELSE IF ~cfg.webhook.enabled
             THEN [ pc |-> "listening", env |-> env, error |-> NoError, redis |-> FALSE ]
             ELSE [ pc |-> "login", env |-> env, error |-> NoError, redis |-> TRUE,
                    i |-> 1, watcherClients |-> <<>> ]
    /\ UNCHANGED <<watcherVars, dispatcherVars, schedulerVars, serverVars, calendarVars, laterVars>>

\* client.login settles for the next API key; after the last key the watcher is started
\* if a login succeeded, and the server listens
LoginSettles(ok) ==
    /\ boot.pc = "login"
    /\ LET watcherClients == IF ok THEN Append(boot.watcherClients, clients[boot.i])
                             ELSE boot.watcherClients
       IN  IF boot.i < Len(clients)
           THEN /\ boot' = [ boot EXCEPT !.i = @ + 1, !.watcherClients = watcherClients ]
                /\ UNCHANGED schedulerVars
           ELSE /\ boot' = [ boot EXCEPT !.pc = "listening", !.i = @ + 1,
                                         !.watcherClients = watcherClients ]
                /\ startWatcherWith(watcherClients)
    /\ UNCHANGED <<watcherVars, dispatcherVars, serverVars, calendarVars, laterVars>>

\* the watcher was started by main with every client of the model
StartedByMain == boot.pc = "listening" /\ "i" \in DOMAIN boot /\ boot.watcherClients = clients

\* the process is started with any environment; the polls of a watcher started with
\* every client are followed
NextBoot ==
    \/ \E env \in Environments : Main(env)
    \/ \E ok \in BOOLEAN : LoginSettles(ok)
    \/ StartedByMain /\ InitialPollFires
    \/ \E s \in Scopes : StartedByMain /\ TimerFires(s)
    \/ \E p \in passes : PollNextClient(p)
    \/ \E p \in passes : PollNextClientFails(p)
    \/ \E c \in Slots :
          \/ Load(c)
          \/ Save(c)
          \/ PassResumes(c)

SpecBoot == Init /\ [][NextBoot]_vars

(* ------------------------ dispatcher, step by step ---------------------- *)
MaxDeliveries == 2      \* calls of dispatchWebhook under study

Secrets == { "s1", "s2" }
EventLists == { {}, {"task.completed"}, {"task.completed", "task.updated"} }
PayloadEvents == { "task.completed", "task.updated", "task.scheduled" }
Statuses == { 200, 204, 301, 404, 500 }

\* JSON.stringify(payload): the members in the order createWebhookPayload lists them
JSONstringify(payload) ==
    << <<"event", payload.event>>, <<"apiKey", payload.apiKey>>, <<"data", payload.data>> >>

\* HMAC-SHA256 as an injective function of key and message
createHmac(secret, message) == <<"hmac-sha256", secret, message>>

\* mutant: the digest without its prefix
generateSignatureBare(payload, secret) == <<createHmac(secret, payload)>>

generateSignature(payload, secret) == <<"sha256=", createHmac(secret, payload)>>

\* mutant: the event filter is not consulted
DispatchUnfiltered(cfg, payload) ==
    /\ delivery.pc \in {"idle", "returned"} /\ delivery.id < MaxDeliveries
    /\ LET body == JSONstringify(payload)
           signature == generateSignature(body, cfg.secret)
       IN  /\ delivery' = [ pc |-> "fetch", id |-> delivery.id + 1,
                            config |-> cfg, payload |-> payload ]
           /\ posts' = << [ method |-> "POST", body |-> body,
                            headers |-> [ signature |-> signature, event |-> payload.event ] ] >>
    /\ receipts' = <<>>
    /\ UNCHANGED <<watcherVars, schedulerVars, serverVars, otherVars>>

\* dispatchWebhook is called: a filtered event returns at once, any other is POSTed
Dispatch(cfg, payload) ==
    /\ delivery.pc \in {"idle", "returned"} /\ delivery.id < MaxDeliveries
    /\ IF ~Sends(cfg, payload)
       THEN /\ delivery' = [ pc |-> "returned", id |-> delivery.id + 1,
                             config |-> cfg, payload |-> payload,
                             result |-> dispatchWebhook(cfg, payload, <<>>) ]
            /\ posts' = <<>>
       ELSE LET body == JSONstringify(payload)
                signature == generateSignature(body, cfg.secret)
            IN  /\ delivery' = [ pc |-> "fetch", id |-> delivery.id + 1,
                                 config |-> cfg, payload |-> payload ]
                /\ posts' = << [ method |-> "POST", body |-> body,
                                 headers |-> [ signature |-> signature,
                                               event |-> payload.event ] ] >>
    /\ receipts' = <<>>
    /\ UNCHANGED <<watcherVars, schedulerVars, serverVars, otherVars>>

\* mutant: a response that is not ok is answered by a second POST
FetchResolvesRetrying(status) ==
    /\ delivery.pc = "fetch"
    /\ IF status \in 200..299
       THEN /\ delivery' = [ delivery EXCEPT !.pc = "returned" ] @@
                           [ response |-> <<status>>,
                     result |-> dispatchWebhook(delivery.config, delivery.payload, <<status>>) ]
            /\ UNCHANGED posts
       ELSE /\ posts' = Append(posts, posts[1])
            /\ UNCHANGED delivery
    /\ UNCHANGED <<watcherVars, schedulerVars, serverVars, otherVars, receipts>>

\* fetch resolves with a response: ok, or the error text is read and the failure returned
FetchResolves(status) ==
    /\ delivery.pc = "fetch"
    /\ delivery' = [ delivery EXCEPT !.pc = "returned" ] @@
                   [ response |-> <<status>>,
                     result |-> dispatchWebhook(delivery.config, delivery.payload, <<status>>) ]
    /\ UNCHANGED <<watcherVars, schedulerVars, serverVars, otherVars, posts, receipts>>

\* fetch rejects: a transport failure, or the 30 s timeout aborts it
FetchRejects ==
    /\ delivery.pc = "fetch"
    /\ delivery' = [ delivery EXCEPT !.pc = "returned" ] @@
                   [ response |-> <<>>,
                     result |-> dispatchWebhook(delivery.config, delivery.payload, <<>>) ]
    /\ UNCHANGED <<watcherVars, schedulerVars, serverVars, otherVars, posts, receipts>>

\* the bodies a receiver can get for a request: the one sent, or another one
Received(post) == { post.body, <<"tampered">> }

\* the receiver recomputes the signature over the raw body with its own secret
ReceiverVerify(i, secret, body) ==
    /\ i \in 1..Len(posts) /\ Len(receipts) < Len(posts)
    /\ receipts' = Append(receipts,
          [ post |-> i, secret |-> secret, body |-> body,
            valid |-> posts[i].headers.signature = <<"sha256=", createHmac(secret, body)>> ])
    /\ UNCHANGED <<watcherVars, schedulerVars, serverVars, otherVars, delivery, posts>>

NextDispatch ==
    \/ \E events \in EventLists, secret \in Secrets, e \in PayloadEvents, t \in TaskIds :
          Dispatch([ config EXCEPT !.events = events ] @@ [ secret |-> secret ],
                   createWebhookPayload(e, "k1", [ task |-> InitialTask(t) ]))
    \/ \E status \in Statuses : FetchResolves(status)
    \/ FetchRejects
    \/ \E i \in 1..Len(posts), secret \in Secrets :
          \E body \in Received(posts[i]) : ReceiverVerify(i, secret, body)

SpecDispatch == Init /\ [][NextDispatch]_vars

(* ----------------------------- WEBHOOK_EVENTS --------------------------- *)
\* webhook/types.ts: the event types there are
WEBHOOK_EVENTS ==
    { "task.created", "task.completed", "task.uncompleted", "task.deleted", "task.updated",
      "task.scheduled" }

\* what the variable is set to, as the names between its commas, trimmed; <<>> for an
\* unset or empty variable
EventsValues ==
    { <<>>, <<"task.completed">>, <<"task.completed", "task.updated">>,
      <<"task.complete">>, <<"task.completed", "task.udpated">> }

\* loadWebhookConfig: eventsEnv split at the commas, trimmed, and filtered by WEBHOOK_EVENTS;
\* the filter as the set of its members
ParseEvents(value) ==
    IF value = <<>> THEN {}
    ELSE { value[i] : i \in { j \in DOMAIN value : value[j] \in WEBHOOK_EVENTS } }

\* the process starts with a value of WEBHOOK_EVENTS: the filter is loaded
LoadEvents(value) ==
    /\ ~eventsEnv.loaded
    /\ eventsEnv' = [ loaded |-> TRUE, value |-> value, events |-> ParseEvents(value) ]
    /\ UNCHANGED <<watcherVars, dispatcherVars, schedulerVars, serverVars, calendarVars, bootVars,
                   compared, hashed, fetchCall, sessions, checks>>

\* dispatchWebhook is called with the configuration loaded
DispatchLoaded(payload) ==
    /\ eventsEnv.loaded
    /\ Dispatch([ config EXCEPT !.events = eventsEnv.events ] @@ [ secret |-> "s1" ], payload)

NextFilter ==
    \/ \E value \in EventsValues : LoadEvents(value)
    \/ \E e \in PayloadEvents, t \in TaskIds :
          DispatchLoaded(createWebhookPayload(e, "k1", [ task |-> InitialTask(t) ]))
    \/ \E status \in Statuses : FetchResolves(status)
    \/ FetchRejects

SpecFilter == Init /\ [][NextFilter]_vars

(* ------------------------- app.ts, auth middleware --------------------- *)
MaxRequests == 2        \* HTTP requests taken

\* config.apiKeys
Registry == { "k1", "k2" }

\* an Authorization header value, as the server gets it (without surrounding white
\* space): a scheme word, the white space after it, and the rest of the value
Header(scheme, spaces, rest) == [ scheme |-> scheme, spaces |-> spaces, rest |-> rest ]
NoHeader == [ scheme |-> NULL ]
Headers ==
    { NoHeader, Header("", 0, "") }
    \cup { Header(w, 0, "") : w \in { "Bearer", "Bearerk1", "Basic" } }
    \cup { Header(w, n, r) : w \in { "Bearer", "bearer", "BEARER", "Basic", "Token" },
                             n \in 1..2, r \in { "k1", "k2", "k9", "k1 k2" } }

Paths == { <<"health">>, <<"api", "tasks">>, <<"api", "user">>, <<"api">>, <<"metrics">> }

toLowerCase(w) == IF w \in { "Bearer", "BEARER" } THEN "bearer" ELSE w

\* authHeader.match(/^Bearer\s+(.+)$/i): <<>> for no match, else <<the group>>; \s+
\* gives back one white space to the group when nothing else is left for it
BearerMatch(h) ==
    IF toLowerCase(h.scheme) # "bearer" \/ h.spaces = 0 THEN <<>>
    ELSE IF h.rest # "" THEN << h.rest >>
    ELSE IF h.spaces >= 2 THEN << " " >>
    ELSE <<>>

Unauthorized(code) == [ status |-> 401, code |-> code, handler |-> "none", client |-> NULL ]

\* mutant: the key is not looked up in the registry
AuthMiddlewareNoLookup(h) ==
    IF h = NoHeader \/ (h.scheme = "" /\ h.spaces = 0 /\ h.rest = "")
    THEN Unauthorized("MISSING_AUTH_HEADER")
    ELSE IF BearerMatch(h) = <<>> THEN Unauthorized("INVALID_AUTH_FORMAT")
    ELSE [ pc |-> "getClient", apiKey |-> BearerMatch(h)[1] ]

\* createAuthMiddleware up to its await: a 401 answer, or the key whose client is asked for
AuthMiddleware(h) ==
    IF h = NoHeader \/ (h.scheme = "" /\ h.spaces = 0 /\ h.rest = "")
    THEN Unauthorized("MISSING_AUTH_HEADER")
    ELSE IF BearerMatch(h) = <<>> THEN Unauthorized("INVALID_AUTH_FORMAT")
    ELSE IF BearerMatch(h)[1] \notin Registry THEN Unauthorized("INVALID_API_KEY")
    ELSE [ pc |-> "getClient", apiKey |-> BearerMatch(h)[1] ]

\* a request comes in and runs down the middleware stack of createApp to its answer or
\* to the await of the session manager
Receive(path, h) ==
    /\ request.pc \in { "none", "answered" } /\ served < MaxRequests
    /\ served' = served + 1
    /\ request' =
          [ path |-> path, authorization |-> h ] @@
          ( IF path = <<"health">>
            THEN [ pc |-> "answered", status |-> 200, handler |-> "health", client |-> NULL ]
            ELSE IF Head(path) = "api"
            THEN IF "pc" \in DOMAIN AuthMiddleware(h)
                 THEN AuthMiddleware(h) @@ [ handler |-> "none", client |-> NULL ]
                 ELSE [ pc |-> "answered" ] @@ AuthMiddleware(h)
            ELSE [ pc |-> "answered", status |-> 404, code |-> "NOT_FOUND",
                   handler |-> "none", client |-> NULL ] )
    /\ UNCHANGED <<watcherVars, dispatcherVars, schedulerVars, otherVars>>

\* sessionManager.getClient resolves: the client is attached and next() runs the router
GetClientResolves ==
    /\ request.pc = "getClient"
    /\ request' = [ request EXCEPT !.pc = "answered", !.client = request.apiKey,
                                   !.handler = IF Len(request.path) > 1 THEN "route" ELSE "none" ]
                  @@ [ status |-> IF Len(request.path) > 1 THEN 200 ELSE 404 ]
    /\ UNCHANGED <<watcherVars, dispatcherVars, schedulerVars, otherVars, served>>

\* sessionManager.getClient rejects: next(error) runs the error handler
GetClientRejects ==
    /\ request.pc = "getClient"
    /\ \E status \in { 401, 500 } :
          request' = [ request EXCEPT !.pc = "answered" ] @@ [ status |-> status, code |-> "ERROR" ]
    /\ UNCHANGED <<watcherVars, dispatcherVars, schedulerVars, otherVars, served>>

NextServer ==
    \/ \E path \in Paths, h \in Headers : Receive(path, h)
    \/ GetClientResolves
    \/ GetClientRejects

SpecServer == Init /\ [][NextServer]_vars

(* ---------------------------- SessionManager --------------------------- *)
MaxCalls == 3           \* calls of getClient and refreshClient

\* this.sessions.delete(apiKey)
Delete(m, k) == [ x \in DOMAIN m \ {k} |-> m[x] ]

\* new SunsamaClient() followed by the awaited login: the call is entered in the list of
\* calls with the client it constructed and the number of sessions dropped so far
LoginCall(kind, apiKey, map, epoch) ==
    sessions' = [ sessions EXCEPT
        !.map = map,
        !.epoch = epoch,
        !.clients = @ + 1,
        !.calls = Append(@, [ kind |-> kind, pc |-> "login", apiKey |-> apiKey,
                              client |-> sessions.clients + 1, epoch |-> epoch,
                              login |-> TRUE ]) ]

\* getClient up to its return or its await: the cached client, or a new client logging in
GetClient(apiKey) ==
    /\ Len(sessions.calls) < MaxCalls
    /\ IF apiKey \in DOMAIN sessions.map
       THEN sessions' = [ sessions EXCEPT
                !.calls = Append(@, [ kind |-> "getClient", pc |-> "returned",
                                      apiKey |-> apiKey, client |-> sessions.map[apiKey],
                                      epoch |-> sessions.epoch, login |-> FALSE ]) ]
       ELSE LoginCall("getClient", apiKey, sessions.map, sessions.epoch)
    /\ UNCHANGED <<watcherVars, dispatcherVars, schedulerVars, serverVars, calendarVars, bootVars,
                   compared, hashed, fetchCall, checks, eventsEnv>>

\* refreshClient up to its await: the session is deleted and a new client logs in
RefreshClient(apiKey) ==
    /\ Len(sessions.calls) < MaxCalls
    /\ LoginCall("refreshClient", apiKey, Delete(sessions.map, apiKey), sessions.epoch + 1)
    /\ UNCHANGED <<watcherVars, dispatcherVars, schedulerVars, serverVars, calendarVars, bootVars,
                   compared, hashed, fetchCall, checks, eventsEnv>>

\* client.login resolves: the call caches its client and returns it
LoginResolves(i) ==
    /\ i \in DOMAIN sessions.calls /\ sessions.calls[i].pc = "login"
    /\ sessions' = [ sessions EXCEPT
          !.map = Put(@, sessions.calls[i].apiKey, sessions.calls[i].client),
          !.calls[i].pc = "returned" ]
    /\ UNCHANGED <<watcherVars, dispatcherVars, schedulerVars, serverVars, calendarVars, bootVars,
                   compared, hashed, fetchCall, checks, eventsEnv>>

\* client.login rejects: the call throws, nothing is cached
LoginRejects(i) ==
    /\ i \in DOMAIN sessions.calls /\ sessions.calls[i].pc = "login"
    /\ sessions' = [ sessions EXCEPT !.calls[i].pc = "rejected" ]
    /\ UNCHANGED <<watcherVars, dispatcherVars, schedulerVars, serverVars, calendarVars, bootVars,
                   compared, hashed, fetchCall, checks, eventsEnv>>

\* removeSession: a cached session is logged out and deleted
RemoveSession(apiKey) ==
    /\ apiKey \in DOMAIN sessions.map
    /\ sessions' = [ sessions EXCEPT !.map = Delete(@, apiKey), !.epoch = @ + 1 ]
    /\ UNCHANGED <<watcherVars, dispatcherVars, schedulerVars, serverVars, calendarVars, bootVars,
                   compared, hashed, fetchCall, checks, eventsEnv>>

\* requests of the registered keys come in at any time, sessions are refreshed and removed
NextSessions ==
    \/ \E apiKey \in Registry : GetClient(apiKey)
    \/ \E apiKey \in Registry : RefreshClient(apiKey)
    \/ \E i \in 1..MaxCalls : LoginResolves(i)
    \/ \E i \in 1..MaxCalls : LoginRejects(i)
    \/ \E apiKey \in Registry : RemoveSession(apiKey)

SpecSessions == Init /\ [][NextSessions]_vars

(* ------------------------------ properties ----------------------------- *)
Observed(cy) == DOMAIN cy.currentTasksMap
HasLoaded(cy) ==
    cy.pc \in {"saveStoredState", "checkApiChange", "del", "dispatchWebhook", "done"}
TaskOf(w) == w.payload.data.task._id
\* the dispatchWebhook calls of a cycle, and those for one task
SentBy(cy) == SelectSeq(webhooks, LAMBDA w : w.cycle = cy.id)
SentFor(cy, t) == SelectSeq(webhooks, LAMBDA w : w.cycle = cy.id /\ TaskOf(w) = t)
HasChanges(w) == "changes" \in DOMAIN w.payload.data
\* the tasks of a cycle that have a stored snapshot and were fetched
Compared(cy) == Observed(cy) \cap DOMAIN cy.oldTasksMap
Settled(cy, t) == cy.pc = "done" /\ t \notin cy.suppressed

\* C1: in a cycle that is not a first poll, a fetched task whose fingerprint equals
\* that of its stored snapshot gets no webhook, and the snapshot saved for it has
\* the same hash as before.
C1_UnchangedTaskSilent ==
    \A c \in Slots :
        LET cy == cycles[c] IN
        HasLoaded(cy) /\ DOMAIN cy.oldTasksMap # {} =>
            \A t \in Compared(cy) :
                hashTaskState(cy.currentTasksMap[t]) = cy.oldTasksMap[t].hash =>
                    /\ SentFor(cy, t) = <<>>
                    /\ cy.pc = "done" =>
                          /\ t \in DOMAIN cy.written
                          /\ cy.written[t].hash = cy.oldTasksMap[t].hash

C1_Witness ==
    \E c \in Slots :
        LET cy == cycles[c] IN
        /\ cy.pc = "done" /\ DOMAIN cy.oldTasksMap # {}
        /\ \E t \in Compared(cy) :
              hashTaskState(cy.currentTasksMap[t]) = cy.oldTasksMap[t].hash
        /\ SentBy(cy) # <<>>

\* C2: a cycle that loads an absent or empty task map saves exactly the snapshots of
\* the K fetched tasks, dispatches no webhook and looks up no self-origin marker,
\* whatever its tier.
C2_FirstPollBaseline ==
    \A c \in Slots :
        LET cy == cycles[c] IN
        HasLoaded(cy) /\ DOMAIN cy.oldTasksMap = {} =>
            /\ SentBy(cy) = <<>>
            /\ cy.checked = {}
            /\ cy.pc \in {"saveStoredState", "done"}
            /\ cy.pc = "done" =>
                  /\ DOMAIN cy.written = Observed(cy)
                  /\ Cardinality(DOMAIN cy.written) = Len(cy.keys)
                  /\ \A t \in Observed(cy) :
                        cy.written[t] = taskToStoredState(cy.currentTasksMap[t])

C2_Witness ==
    \E c \in Slots :
        LET cy == cycles[c] IN
        /\ cy.pc = "done" /\ DOMAIN cy.oldTasksMap = {}
        /\ cy.scope = "week" /\ Observed(cy) # {}
        /\ webhook_state[cy.apiKey] = << [tasks |-> cy.written] >>

\* C3: a task whose stored snapshot and fetched state differ in the completion flag
\* gets at most one webhook in the cycle, task.completed (false -> true) or
\* task.uncompleted (true -> false) without a change map, and exactly one once the
\* cycle is through and no marker was found for the task.
C3_CompletionFlipOnly ==
    \A c \in Slots :
        LET cy == cycles[c] IN
        HasLoaded(cy) =>
            \A t \in Compared(cy) :
                LET old == cy.oldTasksMap[t]
                    cur == cy.currentTasksMap[t]
                    sent == SentFor(cy, t)
                IN  old.completed # cur.completed =>
                        /\ Len(sent) <= 1
                        /\ \A i \in 1..Len(sent) :
                              /\ sent[i].payload.event =
                                    IF cur.completed THEN "task.completed"
                                    ELSE "task.uncompleted"
                              /\ ~HasChanges(sent[i])
                        /\ Settled(cy, t) => Len(sent) = 1

C3_Witness ==
    \E c \in Slots :
        LET cy == cycles[c] IN
        /\ cy.pc = "done"
        /\ \E t \in Compared(cy) \ cy.suppressed :
              /\ ~cy.oldTasksMap[t].completed /\ cy.currentTasksMap[t].completed
              /\ cy.oldTasksMap[t].snoozeUntil # cy.currentTasksMap[t].snoozeUntil
              /\ Len(SentFor(cy, t)) = 1

\* C4: with the completion flag unchanged, a task whose schedule date and bucket type
\* both changed gets at most one webhook, task.scheduled with the change map
\* {snoozeUntil: {old, new}} alone, and exactly one once the cycle is through and no
\* marker was found; a timeHorizon change map is sent only when the schedule date and
\* the completion flag are unchanged and the bucket type changed.
C4_ScheduleDateBeforeBucket ==
    \A c \in Slots :
        LET cy == cycles[c] IN
        HasLoaded(cy) =>
            \A t \in Compared(cy) :
                LET old == cy.oldTasksMap[t]
                    new == taskToStoredState(cy.currentTasksMap[t])
                    sent == SentFor(cy, t)
                IN  /\ ( /\ old.completed = new.completed
                         /\ old.snoozeUntil # new.snoozeUntil
                         /\ old.timeHorizonType # new.timeHorizonType ) =>
                            /\ Len(sent) <= 1
                            /\ \A i \in 1..Len(sent) :
                                  /\ sent[i].payload.event = "task.scheduled"
                                  /\ HasChanges(sent[i])
                                  /\ DOMAIN sent[i].payload.data.changes = {"snoozeUntil"}
                                  /\ sent[i].payload.data.changes["snoozeUntil"] =
                                        [old |-> old.snoozeUntil, new |-> new.snoozeUntil]
                            /\ Settled(cy, t) => Len(sent) = 1
                    /\ \A i \in 1..Len(sent) :
                          ( HasChanges(sent[i])
                            /\ "timeHorizon" \in DOMAIN sent[i].payload.data.changes ) =>
                              /\ old.completed = new.completed
                              /\ old.snoozeUntil = new.snoozeUntil
                              /\ old.timeHorizonType # new.timeHorizonType

C4_Witness ==
    \E c \in Slots :
        LET cy == cycles[c] IN
        /\ cy.pc = "done"
        /\ \E t \in Compared(cy) \ cy.suppressed :
              /\ cy.oldTasksMap[t].completed = cy.currentTasksMap[t].completed
              /\ cy.oldTasksMap[t].snoozeUntil # cy.currentTasksMap[t].snoozeUntil
              /\ cy.oldTasksMap[t].timeHorizonType # cy.currentTasksMap[t].timeHorizonType
              /\ Len(SentFor(cy, t)) = 1

\* the fields of the general update in which two snapshots differ
Differing(old, new) == { f \in {"text", "dueDate", "timeEstimate"} : old[f] # new[f] }

\* C5: a task with a changed fingerprint and unchanged completion flag, schedule date
\* and bucket type gets at most one webhook, task.updated, whose change map has the
\* entry {old, new} for exactly the fields among text, dueDate, timeEstimate in which
\* the stored and the new snapshot differ, and no change map when none differs;
\* exactly one once the cycle is through and no marker was found.  For the completed
\* task T1 whose due date went from null to 2025-01-10 the webhook is task.updated
\* with changes = {dueDate: {old: null, new: "2025-01-10"}}.
C5_UpdatedChangeMap ==
    \A c \in Slots :
        LET cy == cycles[c] IN
        HasLoaded(cy) =>
            \A t \in Compared(cy) :
                LET old == cy.oldTasksMap[t]
                    new == taskToStoredState(cy.currentTasksMap[t])
                    sent == SentFor(cy, t)
                IN  ( /\ old.hash # new.hash
                      /\ old.completed = new.completed
                      /\ old.snoozeUntil = new.snoozeUntil
                      /\ old.timeHorizonType = new.timeHorizonType ) =>
                        /\ Len(sent) <= 1
                        /\ Settled(cy, t) => Len(sent) = 1
                        /\ \A i \in 1..Len(sent) :
                              /\ sent[i].payload.event = "task.updated"
                              /\ HasChanges(sent[i]) <=> Differing(old, new) # {}
                              /\ HasChanges(sent[i]) =>
                                    /\ DOMAIN sent[i].payload.data.changes = Differing(old, new)
                                    /\ \A f \in Differing(old, new) :
                                          sent[i].payload.data.changes[f] =
                                              [old |-> old[f], new |-> new[f]]
                              /\ ( /\ old = taskToStoredState(Mutate(InitialTask(t), "complete"))
                                   /\ cy.currentTasksMap[t] =
                                         Mutate(Mutate(InitialTask(t), "complete"), "dueDate") ) =>
                                    sent[i].payload.data.changes =
                                        [ f \in {"dueDate"} |->
                                            [old |-> NULL, new |-> "2025-01-10"] ]

\* baseline, then T1 completed and polled, then its due date set and polled
C5_Witness ==
    /\ Len(webhooks) = 2
    /\ TaskOf(webhooks[1]) = "T1" /\ TaskOf(webhooks[2]) = "T1"
    /\ webhooks[1].payload.event = "task.completed" /\ ~HasChanges(webhooks[1])
    /\ webhooks[1].payload.data.task.completed
    /\ webhooks[2].payload.event = "task.updated" /\ HasChanges(webhooks[2])
    /\ webhooks[2].payload.data.changes =
          [ f \in {"dueDate"} |-> [old |-> NULL, new |-> "2025-01-10"] ]
    /\ webhooks[1].cycle # webhooks[2].cycle

\* C6: no cycle dispatches task.deleted; a task with a stored snapshot that the fetch
\* of the cycle does not return gets no webhook and keeps its snapshot in the state
\* the cycle saves.
C6_NoDeletedForMissing ==
    /\ \A i \in 1..Len(webhooks) : webhooks[i].payload.event # "task.deleted"
    /\ \A c \in Slots :
          LET cy == cycles[c] IN
          HasLoaded(cy) =>
              \A t \in DOMAIN cy.oldTasksMap \ Observed(cy) :
                  /\ SentFor(cy, t) = <<>>
                  /\ t \notin cy.checked
                  /\ cy.pc = "done" => /\ t \in DOMAIN cy.written
                                       /\ cy.written[t] = cy.oldTasksMap[t]

\* the today tier no longer fetches T1, which moved into the future tier's week
C6_Witness ==
    \E c \in Slots :
        LET cy == cycles[c] IN
        /\ cy.pc = "done" /\ cy.scope = "today"
        /\ "T1" \in DOMAIN cy.oldTasksMap \ Observed(cy)
        /\ place["T1"] = OnDay(Today + 7)
        /\ "T1" \in DOMAIN webhook_state[cy.apiKey][1].tasks

\* C7: a fetched task without a stored snapshot gets its snapshot saved and no
\* webhook; no cycle dispatches task.created, and every webhook is for a task whose
\* stored snapshot has another fingerprint than the fetched task.
C7_NoCreatedForUnseen ==
    /\ \A i \in 1..Len(webhooks) : webhooks[i].payload.event # "task.created"
    /\ \A c \in Slots :
          LET cy == cycles[c] IN
          HasLoaded(cy) =>
              /\ \A t \in Observed(cy) \ DOMAIN cy.oldTasksMap :
                    /\ SentFor(cy, t) = <<>>
                    /\ cy.pc = "done" =>
                          /\ t \in DOMAIN cy.written
                          /\ cy.written[t] = taskToStoredState(cy.currentTasksMap[t])
              /\ \A i \in 1..Len(SentBy(cy)) :
                    LET w == SentBy(cy)[i] IN
                    /\ TaskOf(w) \in DOMAIN cy.oldTasksMap
                    /\ cy.oldTasksMap[TaskOf(w)].hash # hashTaskState(w.payload.data.task)

\* a later poll (the stored map is not empty) meets a task it has no snapshot of
C7_Witness ==
    \E c \in Slots :
        LET cy == cycles[c] IN
        /\ cy.pc = "done" /\ DOMAIN cy.oldTasksMap # {}
        /\ Observed(cy) \ DOMAIN cy.oldTasksMap # {}

\* C8: the state a cycle saves holds every loaded task the fetch did not return, with
\* the snapshot that was loaded, and besides these only the fetched tasks.
C8_SaveMergesLoadedState ==
    \A c \in Slots :
        LET cy == cycles[c] IN
        cy.pc = "done" =>
            /\ DOMAIN cy.written = DOMAIN cy.oldTasksMap \cup Observed(cy)
            /\ \A t \in DOMAIN cy.oldTasksMap \ Observed(cy) : cy.written[t] = cy.oldTasksMap[t]
            /\ \A t \in Observed(cy) : cy.written[t] = taskToStoredState(cy.currentTasksMap[t])

C8_Witness ==
    \E c \in Slots :
        LET cy == cycles[c] IN
        /\ cy.pc = "done"
        /\ DOMAIN cy.oldTasksMap \ Observed(cy) # {}
        /\ Observed(cy) \ DOMAIN cy.oldTasksMap # {}
        /\ webhook_state[cy.apiKey] = << [tasks |-> cy.written] >>

\* C9: once two cycles of different tiers of one subscriber have both saved, the
\* stored task map has an entry for every task either of them fetched.
C9_UnionOfBothTiers ==
    \A c1, c2 \in Slots :
        ( /\ c1 # c2
          /\ cycles[c1].pc = "done" /\ cycles[c2].pc = "done"
          /\ cycles[c1].scope # cycles[c2].scope
          /\ cycles[c1].apiKey = cycles[c2].apiKey ) =>
            /\ webhook_state[cycles[c1].apiKey] # <<>>
            /\ Observed(cycles[c1]) \cup Observed(cycles[c2])
                  \subseteq DOMAIN webhook_state[cycles[c1].apiKey][1].tasks

\* the webhooks dispatched for a task by the cycles that went on to save their state
WebhooksFor(t) == { i \in 1..Len(webhooks) : TaskOf(webhooks[i]) = t /\ webhooks[i].saved }

\* C10: a task gets, from the cycles that saved their state, at most as many webhooks
\* as its fingerprint changed at the source, overlapping cycles of different tiers
\* included.
C10_OneWebhookPerChange ==
    \A t \in TaskIds : Cardinality(WebhooksFor(t)) <= realChanges[t]

\* C11: a cycle that finds the marker of a changed task dispatches nothing for the task,
\* deletes the marker and saves the new snapshot, so that the next change is compared
\* with it; a cycle that finds no marker dispatches the change; a marker disappears
\* only by expiry or by the check of a cycle that detected a change of its task, never
\* through a cycle that sees the task unchanged.
C11_MarkerSuppressesNextChange ==
    /\ [](\A c \in Slots :
            LET cy == cycles[c] IN
            HasLoaded(cy) =>
                \A t \in Compared(cy) :
                    /\ t \in cy.suppressed =>
                          /\ SentFor(cy, t) = <<>>
                          /\ cy.pc = "done" =>
                                cy.written[t] = taskToStoredState(cy.currentTasksMap[t])
                    /\ ( t \in cy.checked \ cy.suppressed /\ ~(cy.pc = "del" /\ cy.taskId = t) ) =>
                          Len(SentFor(cy, t)) = 1)
    /\ [][\A k \in ApiKeys, t \in TaskIds :
            ( api_change[k][t] # NULL /\ api_change'[k][t] = NULL ) =>
                \/ ExpireMarker(k, t)
                \/ \E c \in Slots :
                      /\ cycles[c].pc = "del" /\ cycles[c].apiKey = k /\ cycles[c].taskId = t
                      /\ hashTaskState(cycles[c].currentTasksMap[t]) # cycles[c].oldTasksMap[t].hash
                      /\ t \in cycles'[c].suppressed
                      /\ webhooks' = webhooks]_vars
    /\ [][\A c \in Slots :
            ( cycles[c].pc = "del" /\ cycles'[c] # cycles[c] /\ cycles'[c].pc # "idle" ) =>
                api_change'[cycles[c].apiKey][cycles[c].taskId] = NULL]_vars

\* a cycle found the marker of the changed T1, deleted it and saved the new snapshot
C11_Witness ==
    \E c \in Slots :
        LET cy == cycles[c] IN
        /\ cy.pc = "done"
        /\ "T1" \in Compared(cy) \cap cy.suppressed
        /\ cy.oldTasksMap["T1"].hash # hashTaskState(cy.currentTasksMap["T1"])
        /\ webhooks = <<>>
        /\ api_change[cy.apiKey]["T1"] = NULL
        /\ webhook_state[cy.apiKey][1].tasks["T1"].hash = hashTaskState(tasks["T1"])

\* C12: a task that was changed only through the server's write routes gets no webhook:
\* webhooks are dispatched only for tasks changed outside the server.
C12_RouteWritesNotDelivered ==
    \A t \in TaskIds :
        realChanges[t] = 0 => \A i \in 1..Len(webhooks) : TaskOf(webhooks[i]) # t

\* C13: a call of dispatchWebhook whose non-empty event list lacks the payload's event
\* makes no HTTP request and returns success = true and nothing else; with an empty
\* list the event is POSTed whatever its type.
C13_FilteredEventNotSent ==
    delivery.pc # "idle" =>
        /\ ( delivery.config.events # {} /\ delivery.payload.event \notin delivery.config.events ) =>
              /\ posts = <<>>
              /\ delivery.pc = "returned"
              /\ delivery.result = [ success |-> TRUE ]
        /\ delivery.config.events = {} =>
              /\ Len(posts) = 1
              /\ posts[1].headers.event = delivery.payload.event

C13_Witness ==
    /\ delivery.pc = "returned"
    /\ delivery.config.events = {"task.completed"}
    /\ delivery.payload.event = "task.scheduled"
    /\ delivery.result.success
    /\ posts = <<>>

\* C14: a call for an event that is not filtered makes exactly one request, a POST, and
\* every way the request ends makes the call return a result: success = true exactly
\* for a 2xx response, success = false with the status code for another response, and
\* success = false with an error message and no status code when the request failed.
C14_SinglePostNoRetry ==
    /\ [](( delivery.pc # "idle" /\ Sends(delivery.config, delivery.payload) ) =>
            /\ Len(posts) = 1 /\ posts[1].method = "POST"
            /\ delivery.pc = "returned" =>
                  /\ delivery.result.success <=>
                        ( delivery.response # <<>> /\ delivery.response[1] \in 200..299 )
                  /\ delivery.response # <<>> =>
                        delivery.result.statusCode = delivery.response[1]
                  /\ delivery.response = <<>> =>
                        /\ "error" \in DOMAIN delivery.result
                        /\ "statusCode" \notin DOMAIN delivery.result)
    /\ [][( delivery.pc = "fetch" /\ delivery' # delivery ) =>
            /\ delivery'.pc = "returned" /\ delivery'.id = delivery.id
            /\ posts' = posts]_vars

C14_Witness ==
    /\ delivery.pc = "returned" /\ delivery.id = 2
    /\ Len(posts) = 1
    /\ delivery.response = <<500>>
    /\ delivery.result = [ success |-> FALSE, statusCode |-> 500, error |-> "errorText" ]

\* C15: the signature header of every request is 'sha256=' followed by the HMAC-SHA256,
\* under the configured secret, of the body of that request, which is the serialized
\* payload; a receiver that recomputes it over the body it got with its secret finds
\* it valid exactly when the secret is the configured one and the body the one sent.
C15_SignatureOverBody ==
    /\ \A i \in 1..Len(posts) :
          /\ posts[i].body = JSONstringify(delivery.payload)
          /\ posts[i].headers.signature =
                <<"sha256=", createHmac(delivery.config.secret, posts[i].body)>>
    /\ \A r \in 1..Len(receipts) :
          receipts[r].valid <=>
              /\ receipts[r].secret = delivery.config.secret
              /\ receipts[r].body = posts[receipts[r].post].body

C15_Witness ==
    /\ delivery.pc = "returned" /\ delivery.result.success
    /\ Len(receipts) = 1 /\ receipts[1].valid
    /\ receipts[1].body = JSONstringify(delivery.payload)

\* C16: a call of pollForUser in which a fetch fails dispatches nothing and writes
\* neither the subscriber's state nor a marker; the poll function that made the call
\* goes on with the next client (or ends after the last one), the other poll functions
\* in flight are untouched and every interval timer stays set, so the next firing
\* polls the subscriber again.
C16_FetchFailureIsolated ==
    [][( started' = started + 1 /\ cycles' = cycles ) =>
          /\ webhooks' = webhooks
          /\ webhook_state' = webhook_state
          /\ api_change' = api_change
          /\ timers' = timers /\ isRunning' = isRunning
          /\ \E p \in passes :
                /\ p.awaiting = 0
                /\ passes' = (passes \ {p}) \cup
                      ( IF p.i < Len(clients)
                        THEN { [ scope |-> p.scope, i |-> p.i + 1, awaiting |-> 0 ] }
                        ELSE {} )]_vars

\* the today poll's call for the first client failed with a change of T1 pending: no
\* webhook, the stored baseline untouched, the poll function at the second client
C16_Witness ==
    /\ started = 1 /\ \A c \in Slots : ~Active(c)
    /\ realChanges["T1"] = 1
    /\ webhooks = <<>>
    /\ webhook_state["k1"] = <<BaselineState>>
    /\ api_change["k1"]["T1"] = NULL
    /\ [ scope |-> "today", i |-> 2, awaiting |-> 0 ] \in passes
    /\ timers["today"]

\* C17: a cycle that finds the subscriber's record unparseable writes no state: the
\* record is not replaced by a cycle.
C17_UnloadableStateAborts ==
    [][\A k \in ApiKeys :
          webhook_state[k] = <<Unparseable>> => webhook_state'[k] = webhook_state[k]]_vars

\* the webhooks of a cycle whose delivery failed
FailedOf(cy) == SelectSeq(SentBy(cy), LAMBDA w : "result" \in DOMAIN w /\ ~w.result.success)

\* C18: in a cycle with a failed delivery, every changed task without a marker still
\* gets its webhook, and the state the cycle saves has the new snapshot of every
\* fetched task, the one whose delivery failed included.
C18_FailedDeliveryDoesNotBlock ==
    \A c \in Slots :
        LET cy == cycles[c] IN
        ( HasLoaded(cy) /\ cy.pc = "done" /\ FailedOf(cy) # <<>> ) =>
            /\ \A t \in Compared(cy) \ cy.suppressed :
                  hashTaskState(cy.currentTasksMap[t]) # cy.oldTasksMap[t].hash =>
                      Len(SentFor(cy, t)) = 1
            /\ \A t \in Observed(cy) :
                  /\ t \in DOMAIN cy.written
                  /\ cy.written[t] = taskToStoredState(cy.currentTasksMap[t])
            /\ webhook_state[cy.apiKey] = << [ tasks |-> cy.written ] >>

\* the delivery for T1 failed, T2's webhook was dispatched after it, both are saved
C18_Witness ==
    \E c \in Slots :
        LET cy == cycles[c] IN
        /\ cy.pc = "done"
        /\ Len(SentBy(cy)) = 2
        /\ TaskOf(SentBy(cy)[1]) = "T1" /\ ~SentBy(cy)[1].result.success
        /\ TaskOf(SentBy(cy)[2]) = "T2"
        /\ cy.written["T1"].hash = hashTaskState(tasks["T1"])
        /\ cy.written["T2"].hash = hashTaskState(tasks["T2"])

\* C19: while the watcher is stopped (stopWatcher has returned and startWatcher has not
\* been called again) no call of pollForUser is made, for any tier.
C19_NoCycleStartsAfterStop ==
    [][( ~isRunning /\ ~isRunning' ) => started' = started]_vars

\* whether a header value has the form 'Bearer <key>': the scheme word Bearer in any
\* case, white space, and a key
BearerForm(h) ==
    /\ h # NoHeader
    /\ h.scheme \in { "Bearer", "bearer", "BEARER" }
    /\ h.spaces >= 1 /\ h.rest # ""

PostAttempted(t) == \E i \in DOMAIN webhooks : TaskOf(webhooks[i]) = t /\ webhooks[i].posted

\* C21: with the timers firing for ever and no call failing, a task that had a stored
\* snapshot when its fingerprint changed at the source, that stays as it is in the scope
\* of the today tier, has no marker and an allowed event type, eventually gets a webhook
\* POST attempted.
C21_ChangeEventuallyPosted ==
    ( realChanges[EditedTask] > 0 ) ~> PostAttempted(EditedTask)

\* the days of a sequence of days
DaysOf(days) == { days[i] : i \in DOMAIN days }
\* the dates Monday..Sunday of the week a date lies in
WeekOf(date) == LET monday == date - ((date + 6) % 7) IN monday..(monday + 6)
\* the current calendar date, where the process runs
CurrentDate == LocalDate(clock.now, clock.tz)

\* C22: at every time and in every time zone the today tier's days are the current
\* calendar date alone and the week tier's days are the other six dates of the
\* Monday-to-Sunday week the current date lies in, so that the two are disjoint and
\* together are that week.
C22_TodayAndWeekPartition ==
    /\ dayset["today"] # <<>> => dayset["today"][1] = << CurrentDate >>
    /\ dayset["week"] # <<>> =>
          /\ Len(dayset["week"][1]) = 6
          /\ DaysOf(dayset["week"][1]) = WeekOf(CurrentDate) \ { CurrentDate }
    /\ ( dayset["today"] # <<>> /\ dayset["week"] # <<>> ) =>
          /\ DaysOf(dayset["today"][1]) \cap DaysOf(dayset["week"][1]) = {}
          /\ DaysOf(dayset["today"][1]) \cup DaysOf(dayset["week"][1]) = WeekOf(CurrentDate)

\* the Monday of the current week
CurrentMonday == CurrentDate - ((CurrentDate + 6) % 7)

\* C23: with N weeks and M extra days loaded for the tier, the past tier's days are the
\* 7 * N + M distinct dates that end on the day before the current week's Monday, and
\* the future tier's days the 7 * N + M distinct dates that start on the day after the
\* current week's Sunday.
C23_PastAndFutureRanges ==
    /\ dayset["past"] # <<>> =>
          LET count == 7 * webhookConfig[1].pollWeeksPast + webhookConfig[1].pollExtraDaysPast
          IN  /\ Len(dayset["past"][1]) = count
              /\ DaysOf(dayset["past"][1]) = (CurrentMonday - count)..(CurrentMonday - 1)
    /\ dayset["future"] # <<>> =>
          LET count == 7 * webhookConfig[1].pollWeeksAhead + webhookConfig[1].pollExtraDaysAhead
          IN  /\ Len(dayset["future"][1]) = count
              /\ DaysOf(dayset["future"][1]) = (CurrentMonday + 7)..(CurrentMonday + 6 + count)

\* an environment that enables webhooks without a usable target, secret or store
Misconfigured(env) ==
    /\ env.WEBHOOK_ENABLED \in { "true", "TRUE" }
    /\ \/ env.WEBHOOK_URL \in { NULL, "" }
       \/ env.WEBHOOK_SECRET \in { NULL, "" }
       \/ env.WEBHOOK_URL # "https://hooks.example/in"
       \/ env.REDIS_URL \in { NULL, "" } /\ env.REDIS_HOST \in { NULL, "" }

\* C24: started with webhooks enabled and the target URL missing or unparseable, the
\* secret missing, or neither REDIS_URL nor REDIS_HOST set, the process ends with a
\* ConfigError: the store connection is never opened, the watcher never started and no
\* poll cycle ever runs.
C24_ConfigErrorBeforeStart ==
    ( boot.pc # "off" /\ Misconfigured(boot.env) ) =>
        /\ boot.pc = "exited" /\ boot.error # NoError
        /\ ~boot.redis
        /\ ~isRunning /\ initialPoll = 0 /\ timers = [ s \in Scopes |-> FALSE ]
        /\ passes = {} /\ started = 0

\* the process was started with target and secret set and no store coordinates
C24_Witness ==
    /\ boot.pc = "exited"
    /\ boot.env.WEBHOOK_ENABLED = "TRUE"
    /\ boot.env.WEBHOOK_URL = "https://hooks.example/in" /\ boot.env.WEBHOOK_SECRET = "s1"
    /\ boot.env.REDIS_URL = NULL /\ boot.env.REDIS_HOST = ""
    /\ boot.error = "ConfigError: Redis is required"

\* C25: within a cycle the state is read after the fetches and before every marker
\* check and dispatch; the state is written only by the cycle's save, once, after its
\* last dispatch, so never between two of its dispatches; a cycle that has saved checks
\* and dispatches nothing more; a cycle that aborts writes nothing.
C25_StepsInOrder ==
    /\ [] ( \A c \in Slots :
              LET cy == cycles[c] IN
              Active(c) =>
                  /\ cy.pc = "getStoredState" =>
                        cy.checked = {} /\ SentBy(cy) = <<>> /\ cy.written = EmptyMap
                  /\ cy.written # EmptyMap => cy.pc = "done" )
    /\ [][ \A k \in StoreKeys :
              webhook_state'[k] # webhook_state[k] =>
                  \E c \in Slots :
                      /\ cycles[c].pc = "saveStoredState" /\ cycles[c].apiKey = k
                      /\ cycles[c].todo = <<>>
                      /\ cycles'[c].pc = "done" ]_vars
    /\ [][ Len(webhooks') > Len(webhooks) =>
              \E c \in Slots :
                  /\ cycles[c].pc = "checkApiChange" /\ HasLoaded(cycles[c])
                  /\ webhooks'[Len(webhooks')].cycle = cycles[c].id ]_vars
    /\ [][ \A c \in Slots :
              ( Active(c) /\ cycles[c].pc = "done" ) =>
                  /\ cycles'[c] \in { cycles[c], Idle }
                  /\ webhook_state' = webhook_state
                  /\ Len(webhooks') = Len(webhooks) ]_vars
    /\ [][ \A c \in Slots :
              ( Active(c) /\ cycles[c].pc # "done" /\ cycles'[c] = Idle ) =>
                  webhook_state' = webhook_state ]_vars

\* a cycle has saved its state after two dispatches
C25_Witness ==
    \E c \in Slots :
        /\ cycles[c].pc = "done" /\ Len(SentBy(cycles[c])) = 2
        /\ webhook_state[cycles[c].apiKey] = << [ tasks |-> cycles[c].written ] >>

\* C26: a poll function polls its clients one at a time in the order of the list: every
\* cycle in flight is the one its poll function is waiting for, a cycle starts only for
\* the client its poll function has come to, and a poll function comes to its next
\* client only in the step in which the cycle of the client before returns or its fetch
\* fails.
C26_ClientsOneAtATime ==
    /\ [] ( \A c \in Slots :
              Active(c) =>
                  \E p \in passes :
                      /\ p.awaiting = cycles[c].id /\ p.scope = cycles[c].scope
                      /\ clients[p.i] = cycles[c].apiKey )
    /\ [][ \A c \in Slots :
              ( ~Active(c) /\ cycles'[c] # Idle ) =>
                  \E p \in passes :
                      /\ p.awaiting = 0 /\ p.scope = cycles'[c].scope
                      /\ clients[p.i] = cycles'[c].apiKey
                      /\ [ p EXCEPT !.awaiting = cycles'[c].id ] \in passes' ]_vars
    /\ [][ \A q \in passes' \ passes :
              ( q.awaiting = 0 /\ q.i > 1 ) =>
                  \E p \in passes \ passes' :
                      /\ p.scope = q.scope /\ p.i = q.i - 1
                      /\ IF p.awaiting = 0
                         THEN started' = started + 1 /\ cycles' = cycles
                         ELSE \E c \in Slots :
                                 /\ cycles[c].pc = "done" /\ cycles[c].id = p.awaiting
                                 /\ cycles'[c] = Idle ]_vars

\* a poll function waits for the cycle of its second client
C26_Witness ==
    \E p \in passes, c \in Slots :
        /\ Active(c) /\ cycles[c].apiKey = clients[2] /\ cycles[c].pc = "saveStoredState"
        /\ p.i = 2 /\ p.awaiting = cycles[c].id

\* the entries of the log that note the suppression of the latest change of a task
SuppressedLatest(t) ==
    { i \in DOMAIN webhooks :
        /\ "suppressed" \in DOMAIN webhooks[i]
        /\ TaskOf(webhooks[i]) = t /\ webhooks[i].change = realChanges[t] }

\* C27: a change of a task that was suppressed for its marker, the marker deleted, is
\* never dispatched afterwards, by no cycle, a failure of the suppressing cycle after the
\* suppression included.
C27_SuppressedStaysSuppressed ==
    [][ \A t \in TaskIds :
           ( /\ Len(webhooks') = Len(webhooks) + 1
             /\ "suppressed" \notin DOMAIN webhooks'[Len(webhooks')]
             /\ TaskOf(webhooks'[Len(webhooks')]) = t ) =>
                SuppressedLatest(t) = {} ]_vars

\* the fingerprint of the task a webhook was dispatched with
HashOf(w) == hashTaskState(w.payload.data.task)

\* C28: once a cycle whose delivery for a task failed has saved its state, no later
\* cycle dispatches a webhook for the task with the same fingerprint.
C28_FailedDeliveryNotResent ==
    \A i, j \in DOMAIN webhooks :
        ( /\ webhooks[i].cycle < webhooks[j].cycle
          /\ TaskOf(webhooks[i]) = TaskOf(webhooks[j])
          /\ webhooks[i].saved
          /\ "result" \in DOMAIN webhooks[i] ) =>
            ( ~webhooks[i].result.success => HashOf(webhooks[j]) # HashOf(webhooks[i]) )

C30_DetectChangesTotal ==
    compared.done =>
        LET old == compared.oldState
            new == compared.newState
            change == compared.change
        IN  /\ ( old # NullState /\ new = NullState ) => change = [ event |-> "task.deleted" ]
            /\ ( old = NullState /\ new # NullState ) => change.event = "task.created"
            /\ ( old = NullState /\ new = NullState ) => change = NoChange
            /\ ( old # NullState /\ new # NullState ) =>
                  IF old.hash = new.hash THEN change = NoChange
                  ELSE change.event \in { "task.completed", "task.uncompleted",
                                          "task.scheduled", "task.updated" }

\* detectChanges was called with a snapshot and null
C30_Witness ==
    /\ compared.done
    /\ compared.oldState # NullState /\ compared.newState = NullState
    /\ compared.change.event = "task.deleted"

\* the ten members of a task the fingerprint is computed from
HashedFields ==
    { "text", "completed", "completeDate", "snoozeUntil", "dueDate", "timeEstimate", "notes",
      "streamIds", "timeHorizonType", "timeHorizonRelativeTo" }
AgreeOn(a, b, fields) == \A f \in fields : a[f] = b[f]

Range(seq) == { seq[i] : i \in DOMAIN seq }

\* C32: two observations of a task that list the same category tags, in any order, and
\* agree on the other hashed fields get equal fingerprints, and comparing their snapshots
\* yields no event.
C32_StreamIdsAsSet ==
    ( /\ hashed.done
      /\ AgreeOn(hashed.a, hashed.b, HashedFields \ {"streamIds"})
      /\ Range(hashed.a.streamIds) = Range(hashed.b.streamIds) )
    => /\ hashed.oldState.hash = hashed.newState.hash
       /\ hashed.change = NoChange

Ceil(n, d) == (n + d - 1) \div d

\* C33: a call of fetchTasksWithRateLimit never has more day fetches in flight than its
\* batch size and fetches no day twice; it starts a batch only at its call or when the
\* delay after a batch whose fetches have all completed has elapsed; when it returns it
\* has fetched every day once, in ceil(n/B) batches with a delay between two batches and
\* none after the last, its results in the order of the days; and once a day fetch has
\* failed the call has failed and starts no further batch.
C33_BatchesOneAfterAnother ==
    /\ [] ( fetchCall.pc # "idle" =>
              /\ Cardinality(fetchCall.inflight) <= fetchCall.batchSize
              /\ \A k \in DOMAIN fetchCall.days : fetchCall.fetches[k] <= 1
              /\ fetchCall.failed # {} => fetchCall.pc = "rejected"
              /\ fetchCall.pc = "returned" =>
                    /\ \A k \in DOMAIN fetchCall.days : fetchCall.fetches[k] = 1
                    /\ fetchCall.allTasks = fetchCall.days
                    /\ fetchCall.inflight = {}
                    /\ fetchCall.batches = Ceil(Len(fetchCall.days), fetchCall.batchSize)
                    /\ fetchCall.delays = IF fetchCall.batches = 0 THEN 0
                                          ELSE fetchCall.batches - 1 )
    /\ [][ /\ ( fetchCall.pc # "idle" /\ fetchCall'.batches > fetchCall.batches ) =>
                 fetchCall.pc = "delay" /\ fetchCall.inflight = {}
           /\ fetchCall.pc = "rejected" =>
                 fetchCall'.pc = "rejected" /\ fetchCall'.batches = fetchCall.batches
         ]_vars

\* a call over five days in batches of two has returned
C33_Witness ==
    /\ fetchCall.pc = "returned"
    /\ Len(fetchCall.days) = 5 /\ fetchCall.batchSize = 2
    /\ fetchCall.batches = 3 /\ fetchCall.delays = 2

\* the calls of getClient for a key made since a session was last removed or refreshed
CallsOf(apiKey) ==
    { i \in DOMAIN sessions.calls :
         /\ sessions.calls[i].kind = "getClient"
         /\ sessions.calls[i].apiKey = apiKey
         /\ sessions.calls[i].epoch = sessions.epoch }

\* C34: as long as no session is removed or refreshed, the calls of getClient for an API
\* key that have returned all returned the same client, at most one of the calls whose
\* login did not fail has logged in, and the client of a failed login is cached nowhere.
C34_OneSessionPerKey ==
    /\ \A apiKey \in Registry :
          /\ \A i, j \in CallsOf(apiKey) :
                sessions.calls[i].pc = "returned" /\ sessions.calls[j].pc = "returned"
                   => sessions.calls[i].client = sessions.calls[j].client
          /\ Cardinality({ i \in CallsOf(apiKey) :
                   sessions.calls[i].login /\ sessions.calls[i].pc # "rejected" }) <= 1
    /\ \A i \in DOMAIN sessions.calls :
          sessions.calls[i].pc = "rejected" =>
             \A k \in DOMAIN sessions.map : sessions.map[k] # sessions.calls[i].client

\* C35: no two poll functions of one tier are in flight together, and no two pollForUser
\* invocations of one tier for one subscriber.
C35_TierPassesDoNotOverlap ==
    /\ \A p, q \in passes : p # q => p.scope # q.scope
    /\ \A c, d \in Slots :
          ( c # d /\ Active(c) /\ Active(d) ) =>
             ~( cycles[c].scope = cycles[d].scope /\ cycles[c].apiKey = cycles[d].apiKey )

\* C36: the calls of checkApiChange that got a value are no more than the markers recorded,
\* and the redis.del of a call deletes the very value the call has read.
C36_MarkerConsumedAtomically ==
    /\ [] ( Cardinality({ i \in DOMAIN checks.calls : checks.calls[i].value # NULL })
              <= checks.marks )
    /\ [][ \A i \in DOMAIN checks.calls :
              ( checks.calls[i].pc = "del" /\ checks'.calls[i].pc = "returned" ) =>
                 api_change[checks.calls[i].apiKey][checks.calls[i].taskId]
                    = checks.calls[i].value ]_vars

\* the invocation of pollForUser that takes the step, if one does
Stepping(c) == cycles'[c] # cycles[c]
StepOf(c) == IF Active(c) THEN cycles[c] ELSE cycles'[c]

\* C37: a step of a poll cycle of subscriber A leaves the state record and the markers of
\* every other subscriber as they are, and A's markers of every task but the one it is
\* checking; the record it loads is A's; and it skips a change of task T as self-made only
\* when its check of T has found the marker of (A, T) set.
C37_SubscribersIsolated ==
    [][ \A c \in Slots : Stepping(c) =>
          LET cy == StepOf(c)
          IN  /\ \A b \in StoreKeys \ {cy.apiKey} :
                    /\ webhook_state'[b] = webhook_state[b]
                    /\ api_change'[b] = api_change[b]
              /\ \A t \in TaskIds :
                    api_change'[cy.apiKey][t] # api_change[cy.apiKey][t] => t = cy.taskId
              /\ Active(c) /\ cy.pc = "getStoredState" /\ cycles'[c].pc # "idle" =>
                    cycles'[c].oldTasksMap = OldTasksMap(getStoredState(cy.apiKey))
              /\ cy.pc = "checkApiChange" /\ cycles'[c].pc = "del" =>
                    api_change[cy.apiKey][cy.taskId] # NULL
              /\ \A t \in TaskIds :
                    ( /\ Active(c) /\ cycles'[c].pc # "idle"
                      /\ t \in cycles'[c].suppressed /\ t \notin cy.suppressed ) =>
                        cy.pc = "del" /\ t = cy.taskId
      ]_vars

\* a cycle of k2 has dispatched the change of T1 and skipped that of T2, while k1 holds
\* markers of both tasks
C37_Witness ==
    \E c \in Slots :
        /\ Active(c) /\ cycles[c].apiKey = "k2" /\ cycles[c].pc = "done"
        /\ cycles[c].suppressed = {"T2"}
        /\ \E i \in DOMAIN webhooks :
              webhooks[i].cycle = cycles[c].id /\ TaskOf(webhooks[i]) = "T1"
        /\ api_change["k1"]["T1"] # NULL /\ api_change["k1"]["T2"] # NULL
        /\ api_change["k2"]["T2"] = NULL
        /\ webhook_state["k2"] # webhook_state["k1"]

\* C38: when WEBHOOK_EVENTS is set to a non-empty value, every request POSTed to the target
\* carries an event type named in that value.
C38_OnlyListedEventsPosted ==
    ( eventsEnv.loaded /\ eventsEnv.value # <<>> ) =>
        \A i \in DOMAIN posts : posts[i].headers.event \in Range(eventsEnv.value)

====
